---------------------------- MODULE Spec2Model ----------------------------
(***************************************************************************)
(* A model of the racing-form ingestion pipeline:                          *)
(*   - TheRacingAPIClient._request (api/the_racing_api_client.py): pacing, *)
(*     retry with backoff, cooperative cancellation;                       *)
(*   - ingest_api_day (api/ingest.py): fetch, extract, idempotent upsert   *)
(*     into the six api_* tables inside one sqlite transaction, report.    *)
(*                                                                         *)
(* Time is counted in ticks of 50 ms (0.2 s = 4 ticks, 0.55 s = 11 ticks,  *)
(* 1.0 s = 20 ticks).  rate_limit_rps is counted in tenths of a request    *)
(* per second (2.0 rps = 20).                                              *)
(***************************************************************************)
EXTENDS Integers, Sequences, FiniteSets, TLC

VARIABLES
    \* ---- TheRacingAPIClient and one _request call ----
    backend,          \* "requests" | "urllib": whether `import requests` worked
    max_retries,      \* TheRacingAPIClient.max_retries
    rate_limit_rps,   \* TheRacingAPIClient.rate_limit_rps, in tenths
    since_stamp,      \* time.monotonic() - self._last_request_at, saturating
    cancel_event,     \* threading.Event shared with the caller
    rpc,              \* position of the _request call
    attempt,          \* loop variable of `for attempt in range(max_retries + 1)`
    backoff,          \* local `backoff`
    sleep_seconds,    \* argument `seconds` of _sleep_with_cancel
    sleep_elapsed,    \* local `elapsed` of _sleep_with_cancel
    sleep_step,       \* local `step` of _sleep_with_cancel
    sleep_for,        \* "pacing" | "backoff" | "none": which call site sleeps
    outcome,          \* how the call ended: "none" | "returned" | an error
    \* ---- history of the call, recorded for the properties ----
    calls,            \* number of _request calls started on this client
    sends,            \* HTTP requests sent by the current call
    pattern,          \* shape of the current call's upstream outcomes so far
    last_response,    \* the most recent upstream outcome of the call, "none" if none
    since_send,       \* time since the client's most recent HTTP send, saturating; -1 if none
    send_gap,         \* time between the two most recent sends, saturating; -1 if fewer
    since_cancel,     \* time since cancel_event was set, saturating; -1 if not set
    cancel_during,    \* what the call was doing when cancel_event was set
    sends_at_cancel   \* value of sends when cancel_event was set, -1 if not set

VARIABLES
    \* ---- one ingest_api_day call after another, on one store ----
    ipc,              \* position of the ingest_api_day call
    date,             \* argument date
    regions,          \* argument regions
    racecards,        \* local racecards: what the racecards fetch returned
    results,          \* local results: what the results fetch returned
    meetings,         \* local meetings = _extract_list(racecards)
    results_rows,     \* local results_rows = _extract_list(results)
    mi,               \* index of the next meeting of `for meeting in meetings`
    report,           \* local report: [counts, errors]
    conn,             \* the tables as the open connection sees them
    db,               \* the committed tables of the sqlite file
    artifacts,        \* the files of outdir: a set of [name, report]
    ended,            \* "none" | "returned" | "raised"
    error,            \* the exception a raising call ended with, "none" if none
    \* ---- history, recorded for the properties ----
    runs,             \* number of ingest_api_day calls started
    db_before,        \* db when the current call started
    artifacts_before, \* artifacts when the current call started
    saw_cancel,       \* the call has read cancel_event as set
    soft_failed,      \* the results fetch raised the plan restriction error
    progress,         \* the (stage, percentage) pairs passed to progress_cb
    prev              \* the previous call: its inputs, payloads and outcome

ingestVars ==
    << ipc, date, regions, racecards, results, meetings, results_rows, mi, report,
       conn, db, artifacts, ended, error, runs, db_before, artifacts_before,
       saw_cancel, soft_failed, progress, prev >>

requestVars ==
    << backend, max_retries, rate_limit_rps, since_stamp, cancel_event,
       rpc, attempt, backoff, sleep_seconds, sleep_elapsed, sleep_step, sleep_for,
       outcome, calls, sends, pattern, last_response, since_send, send_gap,
       since_cancel, cancel_during, sends_at_cancel >>

\* the variables of the client other than the shared cancel event
requestLocals ==
    << backend, max_retries, rate_limit_rps, since_stamp,
       rpc, attempt, backoff, sleep_seconds, sleep_elapsed, sleep_step, sleep_for,
       outcome, calls, sends, pattern, last_response, since_send, send_gap,
       since_cancel, cancel_during, sends_at_cancel >>

VARIABLES
    \* ---- flatten_json applied to two payloads ----
    fpc,              \* "idle" | "call" | "done"
    obj_a,            \* argument obj of the first application
    obj_b,            \* argument obj of the second application
    out_a,            \* the dict returned for obj_a, as its <<key, leaf>> pairs
    out_b             \* the dict returned for obj_b

flattenVars == << fpc, obj_a, obj_b, out_a, out_b >>

VARIABLES
    \* ---- upsert statements executed one after another on one store ----
    store,            \* the tables
    last_row,         \* per table and key, the row bound by the latest statement
    prev_row          \* per table and key, the row that statement replaced

upsertVars == << store, last_row, prev_row >>

VARIABLES
    \* ---- _capability_message applied to one exception ----
    mpc,              \* "idle" | "call" | "done"
    raised,           \* the exception passed
    msg               \* the message returned

messageVars == << mpc, raised, msg >>

VARIABLES
    \* ---- one probe_capabilities call ----
    ppc,              \* "idle" | "auth" | "region" | "fallback" | "done" | "raised"
    requested,        \* the regions argument (empty when none is given)
    probe_cancel,     \* cancel_event.is_set()
    region_index,     \* position of the loop of line 144 in probe_regions
    result,           \* the report
    available_regions,
    blocked_regions,
    fetches,          \* history: the fetch_daily_racecard_summaries calls, each
                      \* with its region, whether it returned, and what it raised
    sent              \* history: the _request calls, each with the method that
                      \* made it and the arguments it passed

probeVars == << ppc, requested, probe_cancel, region_index, result,
               available_regions, blocked_regions, fetches, sent >>

VARIABLES
    \* ---- one run of the command `api ingest` (cli.main) ----
    cpc,              \* "idle" | "parse" | "ingest" | "print" | "done"
    argv,             \* the --region / --country flags of the command line
    args_regions,     \* args.regions after parse_args
    ingest_calls,     \* the calls of ingest_api_day made, with their arguments
    printed,          \* whether the report was printed
    returned,         \* << >>, or << the value main returned >>
    propagated        \* whether an exception left main

cliVars == << cpc, argv, args_regions, ingest_calls, printed, returned,
             propagated >>

VARIABLES
    \* ---- the Persist step of one call, on an empty store ----
    spc,              \* "idle" | "meetings" | "results" | "done"
    given_meetings,   \* local meetings
    given_rows,       \* local results_rows
    pst               \* the persist state: [db, counts, raised]

persistVars == << spc, given_meetings, given_rows, pst >>

VARIABLES
    \* ---- the API tab of the UI (ui/tabs/api_tab.py) ----
    tab,              \* "none" | "built": whether an APITab exists
    entries_ok,       \* username, password, date and regions are all filled in
    mode_var,         \* "auto" | "manual"
    capabilities,     \* self.capabilities, by its can_racecards
    discover_btn,     \* state of the button: "normal" | "disabled"
    ingest_btn,
    cancel_btn,
    ui_cancel_event,  \* self.cancel_event.is_set()
    workers,          \* the background threads that have not ended
    msg_queue,        \* self.msg_queue
    started,          \* number of background threads started so far
    held_for          \* history: the workers that were running when the user
                      \* last clicked Cancel

uiVars == << tab, entries_ok, mode_var, capabilities, discover_btn, ingest_btn,
            cancel_btn, ui_cancel_event, workers, msg_queue, started, held_for >>

VARIABLES
    \* ---- one fetch operation of the client after another ----
    operation,        \* the fetch operation the current _request call belongs to
    op_sends          \* HTTP requests sent by the operation's earlier call

fetchVars == << operation, op_sends >>

\* the variables of the operations that neither _request nor ingest_api_day
\* touches
otherVars == << flattenVars, upsertVars, messageVars, probeVars, cliVars,
               persistVars, uiVars, fetchVars >>

vars == << requestVars, ingestVars, otherVars >>

Max(a, b) == IF a >= b THEN a ELSE b
Min(a, b) == IF a <= b THEN a ELSE b

(***************************************************************************)
(* Bounds of the model.                                                    *)
(***************************************************************************)
MaxRetriesBound == 2      \* max_retries ranges over 0..MaxRetriesBound
MaxCalls == 2             \* _request calls made on one client instance
MaxRuns == 2              \* ingest_api_day calls made on one store
MaxRegions == 2           \* regions passed to one probe_capabilities call
MaxFlags == 2             \* --region / --country flags on one command line
MaxJobs == 2              \* background jobs started in one UI session

(***************************************************************************)
(* Program constants, in ticks of 50 ms.                                   *)
(***************************************************************************)
SleepIncrement == 4       \* min(0.2, ...) in _sleep_with_cancel
MinIntervalFloor == 11    \* 0.55 in min_request_interval
InitialBackoff == 20      \* backoff = 1.0
MaxJitter == 8            \* random.uniform(0.0, 0.4)
TruncateAt == 200         \* text[:200] in _capability_message

RetryableStatus == {429, 500, 502, 503, 504}

\* rate_limit_rps values tried, in tenths: 0.5, 1.0 and 2.0 (the default)
RpsChoices == {5, 10, 20}
\* how long one HTTP exchange takes
RequestDurations == {0, 2}
\* samples of random.uniform(0.0, 0.4)
Jitters == {0, MaxJitter}

(***************************************************************************)
(* What one HTTP exchange can end with.  A number names the HTTP status of *)
(* a response; 304 stands for the statuses below 400 outside 2xx, for which  *)
(* requests' raise_for_status does not raise.  "transport" is a timeout or *)
(* connection error (requests.exceptions.Timeout / ConnectionError in the  *)
(* requests backend, urllib.error.URLError / TimeoutError in the urllib    *)
(* backend).  "bad_json" is a 200 whose body does not parse.               *)
(***************************************************************************)
Upstream == {"200", "503", "401", "304", "transport", "bad_json"}

\* resp.status_code / HTTPError.code of an exchange that got a response
StatusOf(up) ==
    CASE up = "200" -> 200
      [] up = "bad_json" -> 200
      [] up = "503" -> 503
      [] up = "401" -> 401
      [] up = "304" -> 304

\* min_request_interval: max(0.55, 1.0 / max(rate_limit_rps, 0.1))
min_request_interval == Max(MinIntervalFloor, 200 \div Max(rate_limit_rps, 1))

(***************************************************************************)
(* The exception an exchange raises inside the try block, as the except    *)
(* clause sees it: [code, urlerror].  code is getattr(exc, "code", None);  *)
(* urlerror is isinstance(exc, (URLError, TimeoutError)).                  *)
(*   requests: raise_for_status raises requests.HTTPError (no .code, an    *)
(*     IOError); transport errors are requests.exceptions.* (IOError),     *)
(*     neither urllib.error.URLError nor the builtin TimeoutError.         *)
(*   urllib: urlopen raises urllib.error.HTTPError, which has .code and is *)
(*     a subclass of URLError; transport errors are URLError/TimeoutError. *)
(***************************************************************************)
NoCode == -1

RaisedException(be, up) ==
    IF be = "requests"
    THEN [code |-> NoCode, urlerror |-> FALSE]
    ELSE IF up = "transport" THEN [code |-> NoCode, urlerror |-> TRUE]
    ELSE IF up = "bad_json" THEN [code |-> NoCode, urlerror |-> FALSE]
    ELSE [code |-> StatusOf(up), urlerror |-> TRUE]

\* lines 98-105: retryable = code in {...} or isinstance(exc, (URLError, TimeoutError))
Retryable(exc) == exc.code \in RetryableStatus \/ exc.urlerror

\* the name under which an error outcome is recorded
ErrorName(up) ==
    IF up = "transport" THEN "transport_error"
    ELSE IF up = "bad_json" THEN "other_error"
    ELSE "http_error"

(***************************************************************************)
(* What the try block does with the exchange's result (lines 65-96):       *)
(*   "return"  the body is returned (and _last_request_at is set)          *)
(*   "raise_after_stamp" _last_request_at is set, then json parsing raises *)
(*   "backoff" the in-try retry of the requests backend (lines 78-81)      *)
(*   "raise"   an exception reaches the except clause                      *)
(*   "fallthrough" nothing raises and nothing returns: raise_for_status    *)
(*             does not raise below 400, the loop goes on                  *)
(***************************************************************************)
TryBlock(be, up, att, maxr) ==
    IF up = "200" THEN "return"
    ELSE IF up = "bad_json" THEN "raise_after_stamp"
    ELSE IF up = "transport" THEN "raise"
    ELSE IF be = "requests"
         THEN IF StatusOf(up) \in RetryableStatus /\ att < maxr THEN "backoff"
              ELSE IF StatusOf(up) >= 400 THEN "raise"
              ELSE "fallthrough"
         ELSE "raise"

\* a variant that gives up one attempt early
ExceptClauseOneShort(be, up, att, maxr) ==
    IF att + 1 >= maxr \/ ~Retryable(RaisedException(be, up)) THEN "raise" ELSE "backoff"

\* lines 97-109: what the except clause does with a raised exception
ExceptClause(be, up, att, maxr) ==
    IF att >= maxr \/ ~Retryable(RaisedException(be, up)) THEN "raise" ELSE "backoff"

\* the whole handling of one exchange
Handle(be, up, att, maxr) ==
    LET t == TryBlock(be, up, att, maxr)
    IN IF t \in {"raise", "raise_after_stamp"}
       THEN (IF ExceptClause(be, up, att, maxr) = "raise" THEN t ELSE "backoff")
       ELSE t

(***************************************************************************)
(* The shape of the upstream outcomes of a call, kept instead of the whole *)
(* list: "only_503" while every outcome so far was a 503 (also when there  *)
(* was none), "503s_then_200" when a 200 followed them, "other" otherwise. *)
(***************************************************************************)
NextPattern(p, up) ==
    IF p = "only_503" /\ up = "503" THEN "only_503"
    ELSE IF p = "only_503" /\ up = "200" THEN "503s_then_200"
    ELSE "other"

InFlight == rpc \notin {"idle", "done"}

(***************************************************************************)
(* Clocks.  The code reads the clock only through differences, so the      *)
(* model keeps the differences; each saturates at min_request_interval,    *)
(* the largest value any of them is compared with.                         *)
(***************************************************************************)
Later(clock, d) == IF clock < 0 THEN clock ELSE Min(clock + d, min_request_interval)

(***************************************************************************)
(* Actions of one _request call.                                           *)
(***************************************************************************)
clientVars == << backend, max_retries, rate_limit_rps >>
sleepVars == << sleep_seconds, sleep_elapsed, sleep_step, sleep_for >>
clockVars == << since_stamp, since_send, since_cancel >>
historyVars == << calls, sends, pattern, last_response, send_gap, cancel_during,
                  sends_at_cancel >>

\* a variant of the loop that makes one attempt more
LoopExhaustedOneLate(att, maxr) == att > maxr + 1

\* line 59: `for attempt in range(self.max_retries + 1)` has run out
LoopExhausted(att, maxr) == att > maxr

\* _request is entered: backoff = 1.0 (line 58)
BeginRequest ==
    /\ rpc \in {"idle", "done"}
    /\ calls < MaxCalls
    /\ calls' = calls + 1
    /\ rpc' = "loop"
    /\ attempt' = 0
    /\ backoff' = InitialBackoff
    /\ outcome' = "none"
    /\ sends' = 0
    /\ pattern' = "only_503"
    /\ last_response' = "none"
    /\ cancel_during' = IF cancel_event THEN "before" ELSE "none"
    /\ sends_at_cancel' = IF cancel_event THEN 0 ELSE -1
    /\ UNCHANGED << clientVars, sleepVars, clockVars, cancel_event, send_gap >>

\* a fetch_* method calls _request (lines 112-123)
StartRequest == BeginRequest /\ UNCHANGED << ingestVars, otherVars >>

\* between two calls the caller does something else for a while
Pause ==
    /\ UNCHANGED << ingestVars, otherVars >>
    /\ rpc = "done"
    /\ calls < MaxCalls
    /\ since_stamp < min_request_interval
    /\ since_stamp' = Later(since_stamp, min_request_interval)
    /\ since_send' = Later(since_send, min_request_interval)
    /\ since_cancel' = Later(since_cancel, min_request_interval)
    /\ UNCHANGED << clientVars, sleepVars, cancel_event, rpc, attempt, backoff,
                    outcome, historyVars >>

\* the caller sets the shared cancel event (Event.set), at any moment
SetCancel ==
    /\ UNCHANGED << ingestVars, otherVars >>
    /\ ~cancel_event
    /\ cancel_event' = TRUE
    /\ since_cancel' = 0
    /\ cancel_during' =
          IF rpc \in {"sleep_check", "sleeping"} THEN sleep_for
          ELSE IF InFlight THEN rpc
          ELSE "before"
    /\ sends_at_cancel' = IF InFlight THEN sends ELSE 0
    /\ UNCHANGED << clientVars, sleepVars, since_stamp, since_send, rpc, attempt,
                    backoff, outcome, calls, sends, pattern, last_response,
                    send_gap >>

\* a variant whose loop head does not look at the cancel event
LoopHeadUnchecked ==
    /\ UNCHANGED << ingestVars, otherVars >>
    /\ rpc = "loop"
    /\ IF LoopExhausted(attempt, max_retries)
       THEN /\ rpc' = "done"
            /\ outcome' = "loop_exit_error"
            /\ UNCHANGED sleepVars
       ELSE IF since_stamp < min_request_interval
       THEN /\ rpc' = "sleep_check"
            /\ sleep_seconds' = min_request_interval - since_stamp
            /\ sleep_elapsed' = 0
            /\ sleep_step' = 0
            /\ sleep_for' = "pacing"
            /\ outcome' = outcome
       ELSE /\ rpc' = "send"
            /\ outcome' = outcome
            /\ UNCHANGED sleepVars
    /\ UNCHANGED << clientVars, clockVars, cancel_event, attempt, backoff,
                    historyVars >>

\* lines 59-64: loop head, cancel check, pacing decision; line 110 after the loop
LoopHead ==
    /\ UNCHANGED << ingestVars, otherVars >>
    /\ rpc = "loop"
    /\ IF LoopExhausted(attempt, max_retries)
       THEN /\ rpc' = "done"
            /\ outcome' = "loop_exit_error"
            /\ UNCHANGED sleepVars
       ELSE IF cancel_event
       THEN /\ rpc' = "done"
            /\ outcome' = "cancelled"
            /\ UNCHANGED sleepVars
       ELSE IF since_stamp < min_request_interval
       THEN /\ rpc' = "sleep_check"
            /\ sleep_seconds' = min_request_interval - since_stamp
            /\ sleep_elapsed' = 0
            /\ sleep_step' = 0
            /\ sleep_for' = "pacing"
            /\ outcome' = outcome
       ELSE /\ rpc' = "send"
            /\ outcome' = outcome
            /\ UNCHANGED sleepVars
    /\ UNCHANGED << clientVars, clockVars, cancel_event, attempt, backoff,
                    historyVars >>

\* lines 39-42: loop test of _sleep_with_cancel, cancel check, step.
\* When the loop ends: after pacing the request is sent (line 65); after a
\* backoff, backoff *= 2 and the for loop continues (lines 80-81, 109).
SleepCheck ==
    /\ UNCHANGED << ingestVars, otherVars >>
    /\ rpc = "sleep_check"
    /\ IF sleep_elapsed < sleep_seconds
       THEN IF cancel_event
            THEN /\ rpc' = "done"
                 /\ outcome' = "cancelled"
                 /\ UNCHANGED << sleep_step, attempt, backoff >>
            ELSE /\ rpc' = "sleeping"
                 /\ sleep_step' = Min(SleepIncrement, sleep_seconds - sleep_elapsed)
                 /\ UNCHANGED << outcome, attempt, backoff >>
       ELSE IF sleep_for = "pacing"
            THEN /\ rpc' = "send"
                 /\ UNCHANGED << outcome, sleep_step, attempt, backoff >>
            ELSE /\ rpc' = "loop"
                 /\ backoff' = backoff * 2
                 /\ attempt' = attempt + 1
                 /\ UNCHANGED << outcome, sleep_step >>
    /\ UNCHANGED << clientVars, sleep_seconds, sleep_elapsed, sleep_for,
                    clockVars, cancel_event, historyVars >>

\* lines 43-44: time.sleep(step); elapsed += step
SleepWake ==
    /\ UNCHANGED << ingestVars, otherVars >>
    /\ rpc = "sleeping"
    /\ since_stamp' = Later(since_stamp, sleep_step)
    /\ since_send' = Later(since_send, sleep_step)
    /\ since_cancel' = Later(since_cancel, sleep_step)
    /\ sleep_elapsed' = sleep_elapsed + sleep_step
    /\ rpc' = "sleep_check"
    /\ UNCHANGED << clientVars, sleep_seconds, sleep_step, sleep_for,
                    cancel_event, attempt, backoff, outcome, historyVars >>

\* lines 65-109: one HTTP exchange and what the code does with its result
Exchange(up, dur, jitter) ==
    /\ UNCHANGED << ingestVars, otherVars >>
    /\ rpc = "send"
    /\ sends' = sends + 1
    /\ pattern' = NextPattern(pattern, up)
    /\ last_response' = up
    /\ send_gap' = since_send
    /\ since_send' = Later(0, dur)
    /\ since_cancel' = Later(since_cancel, dur)
    /\ LET h == Handle(backend, up, attempt, max_retries)
       IN /\ since_stamp' =
                IF h \in {"return", "raise_after_stamp"} THEN 0
                ELSE Later(since_stamp, dur)
          /\ CASE h = "return" ->
                    /\ rpc' = "done"
                    /\ outcome' = "returned"
                    /\ UNCHANGED << sleepVars, attempt >>
               [] h \in {"raise", "raise_after_stamp"} ->
                    /\ rpc' = "done"
                    /\ outcome' = ErrorName(up)
                    /\ UNCHANGED << sleepVars, attempt >>
               [] h = "backoff" ->
                    /\ rpc' = "sleep_check"
                    /\ sleep_seconds' = backoff + jitter
                    /\ sleep_elapsed' = 0
                    /\ sleep_step' = 0
                    /\ sleep_for' = "backoff"
                    /\ UNCHANGED << outcome, attempt >>
               [] h = "fallthrough" ->
                    /\ rpc' = "loop"
                    /\ attempt' = attempt + 1
                    /\ UNCHANGED << outcome, sleepVars >>
    /\ UNCHANGED << clientVars, cancel_event, backoff, calls, cancel_during,
                    sends_at_cancel >>

Send == \E up \in Upstream, dur \in RequestDurations, jitter \in Jitters :
            Exchange(up, dur, jitter)

(***************************************************************************)
(*      fetch_daily_racecards, fetch_daily_racecard_summaries,             *)
(*      fetch_daily_results (lines 112-123)                                *)
(*                                                                         *)
(* Each operation is one _request call, except that the summaries          *)
(* operation calls fetch_daily_racecards when its own request has raised.  *)
(***************************************************************************)
FetchOperations == {"racecards", "summaries", "results"}

FetchIdle == operation = "none" /\ op_sends = 0

\* lines 119-120: the summaries request has raised, and the except clause of
\* fetch_daily_racecard_summaries is about to call fetch_daily_racecards
FallbackDue ==
    rpc = "done" /\ operation = "summaries" /\ outcome \notin {"none", "returned"}

fetchRest == << flattenVars, upsertVars, messageVars, probeVars, cliVars,
               persistVars, uiVars >>

\* the caller starts a fetch operation, or the except clause of line 119
\* starts the racecards request
CallFetch ==
    /\ BeginRequest
    /\ IF FallbackDue
       THEN operation' = "fallback" /\ op_sends' = sends
       ELSE operation' \in FetchOperations /\ op_sends' = 0
    /\ UNCHANGED << ingestVars, fetchRest >>

\* between two fetch operations the caller does something else for a while
FetchPause == ~FallbackDue /\ Pause

(***************************************************************************)
(*                       JSON values and Python helpers                    *)
(*                                                                         *)
(* A JSON value is a record tagged by t: null, bool, num, str, list (v is  *)
(* the sequence of items) or obj (v is the sequence of <<key, value>>      *)
(* pairs in insertion order, keys distinct: a Python dict).                *)
(***************************************************************************)
Null == [t |-> "null"]
Bool(b) == [t |-> "bool", v |-> b]
Num(n) == [t |-> "num", v |-> n]
Str(s) == [t |-> "str", v |-> s]
List(items) == [t |-> "list", v |-> items]
Obj(pairs) == [t |-> "obj", v |-> pairs]

\* an integer too large for float() and for an sqlite INTEGER (such as 10**400)
HugeInt == 10^9

IsDict(x) == x.t = "obj"
IsList(x) == x.t = "list"
IsStr(x) == x.t = "str"

\* Python truthiness, as used by `a or b`
Truthy(x) ==
    CASE x.t = "null" -> FALSE
      [] x.t = "bool" -> x.v
      [] x.t = "num" -> x.v # 0
      [] x.t = "str" -> x.v # ""
      [] OTHER -> Len(x.v) > 0

PyOr(a, b) == IF Truthy(a) THEN a ELSE b

\* `k in d` and d.get(k) for a dict d
Has(d, k) == \E i \in 1..Len(d.v) : d.v[i][1] = k
Get(d, k) ==
    IF Has(d, k) THEN d.v[CHOOSE i \in 1..Len(d.v) : d.v[i][1] = k][2] ELSE Null

\* a dict as produced by flatten_json: d[k] = x keeps the place of an
\* existing key and appends a new one
DictSet(pairs, k, x) ==
    IF \E i \in 1..Len(pairs) : pairs[i][1] = k
    THEN [i \in 1..Len(pairs) |-> IF pairs[i][1] = k THEN << k, x >> ELSE pairs[i]]
    ELSE Append(pairs, << k, x >>)

RECURSIVE DictUpdate(_, _)
DictUpdate(pairs, more) ==
    IF more = << >> THEN pairs
    ELSE DictUpdate(DictSet(pairs, Head(more)[1], Head(more)[2]), Tail(more))

RECURSIVE JoinWith(_, _)
JoinWith(strs, sep) ==
    IF strs = << >> THEN ""
    ELSE IF Len(strs) = 1 THEN strs[1]
    ELSE strs[1] \o sep \o JoinWith(Tail(strs), sep)

\* repr(x), which str() gives for a list or a dict
RECURSIVE PyRepr(_)
PyRepr(x) ==
    CASE x.t = "null" -> "None"
      [] x.t = "bool" -> IF x.v THEN "True" ELSE "False"
      [] x.t = "num" -> ToString(x.v)
      [] x.t = "str" -> "'" \o x.v \o "'"
      [] x.t = "list" ->
            "[" \o JoinWith([i \in 1..Len(x.v) |-> PyRepr(x.v[i])], ", ") \o "]"
      [] x.t = "obj" ->
            "{" \o JoinWith([i \in 1..Len(x.v) |->
                      "'" \o x.v[i][1] \o "': " \o PyRepr(x.v[i][2])], ", ") \o "}"

\* str(x)
PyStr(x) == IF x.t = "str" THEN x.v ELSE PyRepr(x)

\* s.strip() == "" for the strings of the model
IsBlank(s) == s \in {"", " ", "  "}

\* s.lower() for the strings of the model
Lower(s) ==
    CASE s = "Horse" -> "horse"
      [] s = "Trainer" -> "trainer"
      [] s = "Jockey" -> "jockey"
      [] s = "Owner" -> "owner"
      [] s = "RUNNER" -> "runner"
      [] s = "Race" -> "race"
      [] OTHER -> s

\* x.startswith(k + "_") for the keys of the model
StartsWithPrefix(key, k) ==
    CASE k = "horse" -> key \in {"horse_id", "horse_name"}
      [] k = "trainer" -> key \in {"trainer_id", "trainer_name"}
      [] k = "jockey" -> key \in {"jockey_id", "jockey_name"}
      [] OTHER -> FALSE

\* _compact_json: json.dumps(obj, separators=(",", ":"), ensure_ascii=False).
\* The strings of the model hold no character that JSON escapes.
RECURSIVE CompactJson(_)
CompactJson(x) ==
    CASE x.t = "null" -> "null"
      [] x.t = "bool" -> IF x.v THEN "true" ELSE "false"
      [] x.t = "num" -> ToString(x.v)
      [] x.t = "str" -> "\"" \o x.v \o "\""
      [] x.t = "list" ->
            "[" \o JoinWith([i \in 1..Len(x.v) |-> CompactJson(x.v[i])], ",") \o "]"
      [] x.t = "obj" ->
            "{" \o JoinWith([i \in 1..Len(x.v) |->
                      "\"" \o x.v[i][1] \o "\":" \o CompactJson(x.v[i][2])], ",") \o "}"

\* _get_id: the first of id, uuid, runner_id, race_id, meeting_id and the
\* fallback keys whose value is not None and not blank, as a string; "" for None
IdKeys(fallback_keys) == << "id", "uuid", "runner_id", "race_id", "meeting_id" >> \o fallback_keys

GetId(d, fallback_keys) ==
    LET keys == IdKeys(fallback_keys)
        ok(i) == Get(d, keys[i]) # Null /\ ~IsBlank(PyStr(Get(d, keys[i])))
    IN IF \E i \in 1..Len(keys) : ok(i)
       THEN PyStr(Get(d, keys[CHOOSE i \in 1..Len(keys) :
                               ok(i) /\ \A j \in 1..(i - 1) : ~ok(j)]))
       ELSE ""

\* [x for x in seq if isinstance(x, dict)]
RECURSIVE OnlyDicts(_)
OnlyDicts(items) ==
    IF items = << >> THEN << >>
    ELSE IF IsDict(Head(items)) THEN << Head(items) >> \o OnlyDicts(Tail(items))
    ELSE OnlyDicts(Tail(items))

\* _extract_list
ExtractList(payload) ==
    LET keys == << "data", "meetings", "races", "results", "racecards" >>
        hit(i) == IsList(Get(payload, keys[i]))
    IN IF IsList(payload) THEN OnlyDicts(payload.v)
       ELSE IF IsDict(payload) /\ \E i \in 1..Len(keys) : hit(i)
       THEN OnlyDicts(Get(payload, keys[CHOOSE i \in 1..Len(keys) :
                                   hit(i) /\ \A j \in 1..(i - 1) : ~hit(j)]).v)
       ELSE << >>

\* flatten_json: the flat dict, as its sequence of <<key, leaf>> pairs
RECURSIVE FlattenJson(_, _)
RECURSIVE FlattenItems(_, _, _, _)
FlattenItems(x, prefix, i, out) ==
    IF i > Len(x.v) THEN out
    ELSE LET key == IF IsDict(x)
                    THEN (IF prefix # "" THEN prefix \o "." \o x.v[i][1] ELSE x.v[i][1])
                    ELSE prefix \o "[" \o ToString(i - 1) \o "]"
             item == IF IsDict(x) THEN x.v[i][2] ELSE x.v[i]
         IN FlattenItems(x, prefix, i + 1, DictUpdate(out, FlattenJson(item, key)))

FlattenJson(x, prefix) ==
    IF IsDict(x) THEN FlattenItems(x, prefix, 1, << >>)
    ELSE IF IsList(x)
    THEN (IF prefix # "" /\ x.v = << >>
          THEN << << prefix, List(<< >>) >> >>
          ELSE FlattenItems(x, prefix, 1, << >>))
    ELSE << << prefix, x >> >>

\* float(value) raises OverflowError for an int beyond the float range
FloatOverflows(x) == x.t = "num" /\ x.v = HugeInt

\* a variant without `and not isinstance(value, bool)`: float(True) is 1.0
TypedValuesBoolAsNumber(x) ==
    IF x.t = "bool"
    THEN [v_text |-> Null, v_num |-> Num(IF x.v THEN 1 ELSE 0), v_json |-> Null]
    ELSE IF x.t = "num" THEN [v_text |-> Null, v_num |-> x, v_json |-> Null]
    ELSE IF x.t = "str" THEN [v_text |-> x, v_num |-> Null, v_json |-> Null]
    ELSE [v_text |-> Null, v_num |-> Null, v_json |-> Str(CompactJson(x))]

\* _typed_values: (v_text, v_num, v_json), None as Null
TypedValues(x) ==
    IF x.t = "num" THEN [v_text |-> Null, v_num |-> x, v_json |-> Null]
    ELSE IF x.t = "str" THEN [v_text |-> x, v_num |-> Null, v_json |-> Null]
    ELSE [v_text |-> Null, v_num |-> Null, v_json |-> Str(CompactJson(x))]

\* _infer_entity_type: "" for None
InferEntityType(x) ==
    LET name == Lower(PyStr(PyOr(PyOr(Get(x, "type"), Get(x, "entity_type")), Str(""))))
        ks == << "horse", "trainer", "jockey" >>
        hit(i) == \/ \E j \in 1..Len(x.v) : StartsWithPrefix(x.v[j][1], ks[i])
                  \/ Has(x, ks[i])
    IN IF name \in {"horse", "trainer", "jockey", "runner", "race", "meeting"} THEN name
       ELSE IF \E i \in 1..3 : hit(i)
       THEN ks[CHOOSE i \in 1..3 : hit(i) /\ \A j \in 1..(i - 1) : ~hit(j)]
       ELSE ""

(***************************************************************************)
(*                    The store (db/migrations.py TABLES)                  *)
(*                                                                         *)
(* A table is the set of its rows.  A column holds a JSON scalar (Null for *)
(* SQL NULL); key columns and raw_json hold plain strings.                 *)
(***************************************************************************)
TableNames == {"api_meetings", "api_races", "api_runners", "api_results",
               "api_entities", "api_kv"}

EmptyDb == [n \in TableNames |-> {}]

\* the PRIMARY KEY of each table
PrimaryKey(table, r) ==
    CASE table = "api_kv" -> << r.entity_type, r.entity_id, r.k >>
      [] table = "api_entities" -> << r.entity_type, r.entity_id >>
      [] table = "api_meetings" -> << r.meeting_id >>
      [] table = "api_races" -> << r.race_id >>
      [] table = "api_runners" -> << r.runner_id >>
      [] table = "api_results" -> << r.race_id >>

\* a variant that inserts without looking for a conflicting row
InsertOnly(tables, table, row) ==
    [tables EXCEPT ![table] = @ \cup {row}]

\* a variant whose fact update keeps the old value of a column that the new
\* row leaves NULL (SET v = COALESCE(excluded.v, v))
UpsertCoalescing(tables, table, row) ==
    LET same == {r \in tables[table] : PrimaryKey(table, r) = PrimaryKey(table, row)}
        keep(old) == [row EXCEPT
                         !.v_text = IF @ = Null THEN old.v_text ELSE @,
                         !.v_num = IF @ = Null THEN old.v_num ELSE @,
                         !.v_json = IF @ = Null THEN old.v_json ELSE @]
    IN [tables EXCEPT ![table] =
           (@ \ same) \cup (IF table = "api_kv" /\ same # {}
                            THEN {keep(old) : old \in same}
                            ELSE {row})]

\* a variant that leaves a conflicting row as it is (ON CONFLICT DO NOTHING)
UpsertIgnoring(tables, table, row) ==
    IF \E r \in tables[table] : PrimaryKey(table, r) = PrimaryKey(table, row)
    THEN tables
    ELSE [tables EXCEPT ![table] = @ \cup {row}]

\* INSERT ... ON CONFLICT(<primary key>) DO UPDATE SET <every other column> =
\* excluded.<column>: the row with that key, if any, is replaced
Upsert(tables, table, row) ==
    LET key == PrimaryKey(table, row)
    IN [tables EXCEPT ![table] = {r \in @ : PrimaryKey(table, r) # key} \cup {row}]

\* sqlite3 binds None, int, float and str; a list or a dict raises, and so
\* does an int beyond 64 bits
Bindable(x) == x.t \in {"null", "bool", "str"} \/ (x.t = "num" /\ x.v # HugeInt)

\* a variant of the fact loop that writes no fact and raises nothing
UpsertFactsSkipped(tables, entity_type, entity_id, flat, i) ==
    [db |-> tables, raised |-> FALSE]

\* lines 84-96 of _upsert_entity: one api_kv upsert per flattened key, in
\* order; float() of _typed_values may raise on the way
RECURSIVE UpsertFacts(_, _, _, _, _)
UpsertFacts(tables, entity_type, entity_id, flat, i) ==
    IF i > Len(flat) THEN [db |-> tables, raised |-> FALSE]
    ELSE IF FloatOverflows(flat[i][2]) THEN [db |-> tables, raised |-> TRUE]
    ELSE LET tv == TypedValues(flat[i][2])
         IN UpsertFacts(
                Upsert(tables, "api_kv",
                       [entity_type |-> entity_type, entity_id |-> entity_id,
                        k |-> flat[i][1], v_text |-> tv.v_text,
                        v_num |-> tv.v_num, v_json |-> tv.v_json]),
                entity_type, entity_id, flat, i + 1)

\* a variant that first deletes the entity's facts (DELETE FROM api_kv WHERE
\* entity_type = ? AND entity_id = ?)
UpsertEntityPurging(tables, entity_type, entity_id, raw, parent_id, meeting_date, country) ==
    LET flat == FlattenJson(raw, "")
        purged == [tables EXCEPT !["api_kv"] =
                      {f \in @ : ~(f.entity_type = entity_type /\ f.entity_id = entity_id)}]
        r == UpsertFacts(
                 Upsert(purged, "api_entities",
                        [entity_type |-> entity_type, entity_id |-> entity_id,
                         parent_id |-> parent_id, meeting_date |-> meeting_date,
                         country |-> country, raw_json |-> CompactJson(raw),
                         raw |-> raw]),
                 entity_type, entity_id, flat, 1)
    IN [db |-> r.db, raised |-> r.raised, n |-> Len(flat)]

\* _upsert_entity: the api_entities row, then the facts; n is the returned
\* len(flat).  The row's field raw is the value whose text raw_json is.
UpsertEntity(tables, entity_type, entity_id, raw, parent_id, meeting_date, country) ==
    LET flat == FlattenJson(raw, "")
        r == UpsertFacts(
                 Upsert(tables, "api_entities",
                        [entity_type |-> entity_type, entity_id |-> entity_id,
                         parent_id |-> parent_id, meeting_date |-> meeting_date,
                         country |-> country, raw_json |-> CompactJson(raw),
                         raw |-> raw]),
                 entity_type, entity_id, flat, 1)
    IN [db |-> r.db, raised |-> r.raised, n |-> Len(flat)]

(***************************************************************************)
(* The Persist step of ingest_api_day.  A persist state st is              *)
(* [db, counts, raised]: the connection's view of the tables, the report's *)
(* counts, and whether an exception has been raised (nothing runs after).  *)
(***************************************************************************)
ZeroCounts == [meetings |-> 0, races |-> 0, runners |-> 0, results |-> 0,
               entities |-> 0, kv_pairs |-> 0]

Raise(st) == [st EXCEPT !.raised = TRUE]

\* a variant that counts an entity only when its key is new to the table
CountedUpsertEntityOncePerKey(st, entity_type, entity_id, raw, parent_id, meeting_date, country) ==
    LET r == UpsertEntity(st.db, entity_type, entity_id, raw, parent_id,
                          meeting_date, country)
        known == \E e \in st.db["api_entities"] :
                     e.entity_type = entity_type /\ e.entity_id = entity_id
    IN [db |-> r.db,
        raised |-> r.raised,
        counts |-> [st.counts EXCEPT
                       !.entities = IF known THEN @ ELSE @ + 1,
                       !.kv_pairs = IF r.raised THEN @ ELSE @ + r.n]]

\* counts["entities"] += 1; counts["kv_pairs"] += _upsert_entity(...)
CountedUpsertEntity(st, entity_type, entity_id, raw, parent_id, meeting_date, country) ==
    LET r == UpsertEntity(st.db, entity_type, entity_id, raw, parent_id,
                          meeting_date, country)
    IN [db |-> r.db,
        raised |-> r.raised,
        counts |-> [st.counts EXCEPT
                       !.entities = @ + 1,
                       !.kv_pairs = IF r.raised THEN @ ELSE @ + r.n]]

\* lines 253-258: every dict-valued field of a runner is upserted as an entity
RECURSIVE PersistNested(_, _, _, _, _, _)
PersistNested(st, runner, runner_id, meeting_date, country, i) ==
    IF st.raised \/ i > Len(runner.v) THEN st
    ELSE LET key == runner.v[i][1]
             value == runner.v[i][2]
             inferred == IF InferEntityType(value) # "" THEN InferEntityType(value)
                         ELSE Lower(key)
             found == GetId(value, << inferred \o "_id", "id" >>)
             nested_id == IF found # "" THEN found ELSE runner_id \o "_" \o key
         IN IF IsDict(value)
            THEN PersistNested(
                     CountedUpsertEntity(st, inferred, nested_id, value,
                                         Str(runner_id), meeting_date, country),
                     runner, runner_id, meeting_date, country, i + 1)
            ELSE PersistNested(st, runner, runner_id, meeting_date, country, i + 1)

\* x if isinstance(x, str) else (x or {}).get("name"), for jockey and trainer;
\* .get raises AttributeError on a truthy value that is neither str nor dict
NameRaises(x) == ~IsStr(x) /\ Truthy(x) /\ ~IsDict(x)
NameOf(x) == IF IsStr(x) THEN x ELSE IF Truthy(x) THEN Get(x, "name") ELSE Null

\* lines 224-258: one runner dict of a race
PersistRunner(st, runner, race_id, meeting_date, country) ==
    LET found == GetId(runner, << "runner_id", "horse_id" >>)
        runner_id == IF found # "" THEN found
                     ELSE race_id \o "_ru" \o ToString(st.counts.runners + 1)
        row == [runner_id |-> runner_id,
                race_id |-> race_id,
                runner_name |-> PyOr(Get(runner, "runner_name"), Get(runner, "name")),
                barrier |-> PyOr(Get(runner, "barrier"), Get(runner, "draw")),
                weight |-> Get(runner, "weight"),
                jockey |-> NameOf(Get(runner, "jockey")),
                trainer |-> NameOf(Get(runner, "trainer")),
                raw_json |-> CompactJson(runner)]
        raises == \/ NameRaises(Get(runner, "jockey"))
                  \/ NameRaises(Get(runner, "trainer"))
                  \/ \E c \in {"runner_name", "barrier", "weight", "jockey", "trainer"} :
                         ~Bindable(row[c])
    IN IF raises THEN Raise(st)
       ELSE PersistNested(
                CountedUpsertEntity(
                    [st EXCEPT !.db = Upsert(st.db, "api_runners", row),
                               !.counts.runners = @ + 1],
                    "runner", runner_id, runner, Str(race_id), meeting_date, country),
                runner, runner_id, meeting_date, country, 1)

RECURSIVE PersistRunners(_, _, _, _, _, _)
PersistRunners(st, runners, race_id, meeting_date, country, i) ==
    IF st.raised \/ i > Len(runners) THEN st
    ELSE PersistRunners(
             IF IsDict(runners[i])
             THEN PersistRunner(st, runners[i], race_id, meeting_date, country)
             ELSE st,
             runners, race_id, meeting_date, country, i + 1)

\* a variant that prefers the race's own meeting_id field
RaceOwnMeetingId(race, meeting_id) ==
    IF Get(race, "meeting_id") # Null THEN PyStr(Get(race, "meeting_id"))
    ELSE meeting_id

\* line 208: the meeting_id bound into the api_races row is the id of the
\* meeting whose loop body runs
RaceMeetingId(race, meeting_id) == meeting_id

\* lines 191-258: one race dict of a meeting
PersistRace(st, race, meeting_id, meeting_date, country) ==
    LET found == GetId(race, << "race_id" >>)
        race_id == IF found # "" THEN found
                   ELSE meeting_id \o "_r" \o ToString(st.counts.races + 1)
        row == [race_id |-> race_id,
                meeting_id |-> RaceMeetingId(race, meeting_id),
                race_no |-> PyOr(Get(race, "race_no"), Get(race, "number")),
                scheduled_start_time |->
                    PyOr(PyOr(Get(race, "scheduled_start_time"), Get(race, "off_time")),
                         Get(race, "start_time")),
                distance |-> Get(race, "distance"),
                class |-> PyOr(Get(race, "class"), Get(race, "grade")),
                raw_json |-> CompactJson(race)]
        raises == \E c \in {"race_no", "scheduled_start_time", "distance", "class"} :
                      ~Bindable(row[c])
        runners == IF IsList(Get(race, "runners")) THEN Get(race, "runners").v ELSE << >>
    IN IF raises THEN Raise(st)
       ELSE PersistRunners(
                CountedUpsertEntity(
                    [st EXCEPT !.db = Upsert(st.db, "api_races", row),
                               !.counts.races = @ + 1],
                    "race", race_id, race, Str(meeting_id), meeting_date, country),
                runners, race_id, meeting_date, country, 1)

RECURSIVE PersistRaces(_, _, _, _, _, _)
PersistRaces(st, races, meeting_id, meeting_date, country, i) ==
    IF st.raised \/ i > Len(races) THEN st
    ELSE PersistRaces(
             IF IsDict(races[i])
             THEN PersistRace(st, races[i], meeting_id, meeting_date, country)
             ELSE st,
             races, meeting_id, meeting_date, country, i + 1)

\* lines 169-258: one meeting dict (the body of `for meeting in meetings`)
PersistMeeting(st, meeting, day, region_list) ==
    LET found == GetId(meeting, << "meeting_id", "track_id", "venue_id" >>)
        meeting_id == IF found # "" THEN found
                      ELSE "m_" \o day \o "_" \o ToString(st.counts.meetings)
        meeting_date == PyStr(PyOr(PyOr(Get(meeting, "meeting_date"), Get(meeting, "date")),
                                   Str(day)))
        country == PyStr(PyOr(Get(meeting, "country"),
                              Str(IF region_list # << >> THEN region_list[1] ELSE "")))
        venue == PyStr(PyOr(PyOr(Get(meeting, "venue"), Get(meeting, "track")), Str("")))
        row == [meeting_id |-> meeting_id,
                meeting_date |-> Str(meeting_date),
                country |-> Str(country),
                venue |-> Str(venue),
                raw_json |-> CompactJson(meeting)]
        races == IF IsList(Get(meeting, "races")) THEN Get(meeting, "races").v ELSE << >>
    IN PersistRaces(
           CountedUpsertEntity(
               [st EXCEPT !.db = Upsert(st.db, "api_meetings", row),
                          !.counts.meetings = @ + 1],
               "meeting", meeting_id, meeting, Null, Str(meeting_date), Str(country)),
           races, meeting_id, Str(meeting_date), Str(country), 1)

\* a variant that lets the finish order override an explicit winner
WinnerFromFinishOrder(row) ==
    LET finish_order == PyOr(PyOr(PyOr(Get(row, "finish_order"), Get(row, "placing")),
                                  Get(row, "positions")), List(<< >>))
    IN IF IsList(finish_order) /\ finish_order.v # << >>
       THEN (IF IsDict(finish_order.v[1]) THEN Get(finish_order.v[1], "runner_id")
             ELSE finish_order.v[1])
       ELSE Get(row, "winner_runner_id")

\* lines 266-270: the winner of a results row, Null for None
WinnerOf(row) ==
    LET finish_order == PyOr(PyOr(PyOr(Get(row, "finish_order"), Get(row, "placing")),
                                  Get(row, "positions")), List(<< >>))
        winner == Get(row, "winner_runner_id")
    IN IF winner = Null /\ IsList(finish_order) /\ finish_order.v # << >>
       THEN (IF IsDict(finish_order.v[1]) THEN Get(finish_order.v[1], "runner_id")
             ELSE finish_order.v[1])
       ELSE winner

\* lines 261-285: one results row (the body of `for row in results_rows`)
PersistResult(st, row, day) ==
    LET race_id == GetId(row, << "race_id" >>)
        finish_order == PyOr(PyOr(PyOr(Get(row, "finish_order"), Get(row, "placing")),
                                  Get(row, "positions")), List(<< >>))
        winner == WinnerOf(row)
        dbrow == [race_id |-> race_id,
                  status |-> Get(row, "status"),
                  winner_runner_id |-> IF winner # Null THEN Str(PyStr(winner)) ELSE Null,
                  finish_order_json |-> CompactJson(finish_order),
                  raw_json |-> CompactJson(row)]
    IN IF race_id = "" THEN st
       ELSE IF ~Bindable(dbrow.status) THEN Raise(st)
       ELSE CountedUpsertEntity(
                [st EXCEPT !.db = Upsert(st.db, "api_results", dbrow),
                           !.counts.results = @ + 1],
                "result", race_id, row, Str(race_id), Str(day), Null)

RECURSIVE PersistResults(_, _, _, _)
PersistResults(st, rows, day, i) ==
    IF st.raised \/ i > Len(rows) THEN st
    ELSE PersistResults(PersistResult(st, rows[i], day), rows, day, i + 1)

(***************************************************************************)
(*                 Inputs: what the upstream API may return                *)
(***************************************************************************)
Runner1 == Obj(<< << "runner_id", Str("ru1") >>, << "runner_name", Str("A") >>,
                  << "weight", Num(55) >>,
                  << "trainer", Obj(<< << "name", Str("T") >> >>) >> >>)
Runner2 == Obj(<< << "runner_id", Str("ru2") >>, << "runner_name", Str("B") >>,
                  << "scratched", Bool(FALSE) >>, << "draw", Null >>,
                  << "form", Obj(<< << "last_10", List(<< >>) >> >>) >> >>)
Race1 == Obj(<< << "race_id", Str("r1") >>, << "race_no", Num(1) >>,
                << "runners", List(<< Runner1, Runner2 >>) >> >>)
Meeting1 == Obj(<< << "meeting_id", Str("m1") >>, << "venue", Str("Ascot") >>,
                   << "races", List(<< Race1 >>) >> >>)

\* race r1 and runner ru1 again, under another meeting and with other fields
Meeting2 == Obj(<< << "meeting_id", Str("m2") >>, << "country", Str("ire") >>,
                   << "races", List(<< Obj(<< << "race_id", Str("r1") >>,
                                              << "meeting_id", Str("m0") >>,
                                              << "distance", Num(1200) >>,
                                              << "runners", List(<< Obj(<<
                                                  << "runner_id", Str("ru1") >>,
                                                  << "name", Str("A2") >>,
                                                  << "weight", Str("9-0") >> >>) >>) >> >>) >>) >> >>)

\* a meeting whose runner has a list where a jockey name or object is expected
Meeting3 == Obj(<< << "meeting_id", Str("m3") >>,
                   << "races", List(<< Obj(<< << "race_id", Str("r3") >>,
                                              << "runners", List(<< Obj(<<
                                                  << "runner_id", Str("ru3") >>,
                                                  << "jockey", List(<< Str("x") >>) >> >>) >>) >> >>) >>) >> >>)

\* a meeting with an integer beyond the float range among its fields
Meeting4 == Obj(<< << "meeting_id", Str("m4") >>, << "attendance", Num(HugeInt) >>,
                   << "venue", Str("X") >> >>)

\* a meeting, a race and runners without any identifier, among entries that
\* are not objects
MeetingNoIds == Obj(<< << "venue", Str("V") >>,
                       << "races", List(<< Obj(<< << "runners", List(<<
                              Obj(<< << "name", Str("A") >>,
                                     << "jockey", Obj(<< << "name", Str("J") >> >>) >> >>),
                              Str("junk"),
                              Obj(<< << "name", Str("B") >> >>) >>) >> >>) >>) >> >>)

RacecardPayloads ==
    { Obj(<< << "data", List(<< Meeting1 >>) >> >>),
      List(<< MeetingNoIds, Num(3) >>),
      Obj(<< << "meetings", List(<< Meeting1, Meeting2 >>) >> >>),
      Obj(<< << "data", List(<< Meeting1, Meeting3 >>) >> >>),
      Obj(<< << "racecards", List(<< Meeting4 >>) >> >>) }

ResultsPayloads ==
    { Obj(<< << "results", List(<< Obj(<< << "race_id", Str("r1") >>,
                                          << "winner_runner_id", Str("ru2") >> >>) >>) >> >>),
      List(<< Obj(<< << "race_id", Str("r1") >>, << "status", Str("final") >>,
                     << "finish_order", List(<< Obj(<< << "runner_id", Str("ru1") >> >>) >>) >> >>),
              Obj(<< << "status", Str("void") >> >>) >>),
      Obj(<< << "results", List(<< Obj(<< << "race_id", Str("r1") >>,
                                          << "status", Obj(<< << "code", Num(1) >> >>) >> >>) >>) >> >>),
      Obj(<< << "results", List(<< Obj(<< << "race_id", Str("r1") >>,
                                          << "id", Str("x") >> >>),
                                   Obj(<< << "race_id", Str("r2") >>,
                                          << "id", Str("x") >>,
                                          << "winner_runner_id", Str("ru1") >> >>) >>) >> >>) }

Dates == {"2025-01-01"}
RegionLists == { << "gb" >> }

\* what a fetch may raise: the cancellation error of _request (only when the
\* event is set), or any other error (HTTP, transport, ...)
FetchErrors == {"cancelled", "fetch_error"}

(***************************************************************************)
(*                        ingest_api_day, step by step                     *)
(*                                                                         *)
(* The client is the `client` argument: a fetch returns a payload or       *)
(* raises.  With minimal_payload the racecards come from                   *)
(* fetch_daily_racecard_summaries, which also returns a payload or raises. *)
(***************************************************************************)
NewReport == [counts |-> ZeroCounts, errors |-> << >>]

NoPrev == [date |-> "", regions |-> << >>, racecards |-> Null, results |-> Null,
           db |-> EmptyDb, clean |-> FALSE]

PlanMessage == "Results endpoint unavailable on current plan; ingesting racecards only."

ReportName(d) == "ingest_report_" \o d \o ".json"

\* Path.write_text: the file of that name is created or replaced
WriteText(files, name, content) ==
    {f \in files : f.name # name} \cup {[name |-> name, report |-> content]}

\* a variant of the exception exit that keeps what was written
RollbackKeeps(committed, working) == working

\* `with sqlite3.connect(db_path) as conn:` left by an exception: the
\* connection's context manager rolls the open transaction back
Rollback(committed, working) == committed

\* the call ran to its end without cancellation, error or soft failure
Clean == ipc = "done" /\ ended = "returned" /\ ~saw_cancel /\ ~soft_failed

\* a variant that reports the end of the call once the details are fetched
PercentDoneEarly(stage) ==
    CASE stage = "Auth check" -> 10
      [] stage = "Discover" -> 20
      [] stage = "Fetch summaries" -> 45
      [] stage = "Fetch details" -> 100
      [] stage = "Write DB" -> 90
      [] stage = "Report" -> 100

\* the percentage passed with each stage (lines 139, 140, 148, 160, 288, 293)
Percent(stage) ==
    CASE stage = "Auth check" -> 10
      [] stage = "Discover" -> 20
      [] stage = "Fetch summaries" -> 45
      [] stage = "Fetch details" -> 65
      [] stage = "Write DB" -> 90
      [] stage = "Report" -> 100

\* progress_cb(stage, percentage), the callback recording what it is passed
ProgressCb(calls_made, stage) ==
    Append(calls_made, [stage |-> stage, pct |-> Percent(stage)])

localVars == << racecards, results, meetings, results_rows, mi >>
storeVars == << conn, db, artifacts >>
inputVars == << date, regions >>
callHistory == << runs, db_before, artifacts_before, prev >>

\* lines 110-141: the call starts; the caller passes a cleared cancel event
StartIngest(d, rg) ==
    /\ ipc \in {"idle", "done"}
    /\ runs < MaxRuns
    /\ runs' = runs + 1
    /\ prev' = IF Clean
               THEN [date |-> date, regions |-> regions, racecards |-> racecards,
                     results |-> results, db |-> db, clean |-> TRUE]
               ELSE NoPrev
    /\ date' = d
    /\ regions' = rg
    /\ report' = NewReport
    /\ racecards' = Null
    /\ results' = Null
    /\ meetings' = << >>
    /\ results_rows' = << >>
    /\ mi' = 0
    /\ ended' = "none"
    /\ error' = "none"
    /\ saw_cancel' = FALSE
    /\ soft_failed' = FALSE
    /\ db_before' = db
    /\ artifacts_before' = artifacts
    /\ cancel_event' = FALSE
    /\ progress' = ProgressCb(ProgressCb(<< >>, "Auth check"), "Discover")
    /\ ipc' = "fetch_racecards"
    /\ UNCHANGED << storeVars, requestLocals, otherVars >>

Start == \E d \in Dates, rg \in RegionLists : StartIngest(d, rg)

\* the caller sets the shared cancel event while the call runs; once the
\* meetings loop is over the call does not read the event again
CancelIngest ==
    /\ ipc \in {"fetch_racecards", "after_racecards", "fetch_results", "persist"}
    /\ ~cancel_event
    /\ cancel_event' = TRUE
    /\ UNCHANGED << ingestVars, requestLocals, otherVars >>

\* a variant that stores the meetings as soon as the racecards are fetched
RacecardsReturnedAndStored(payload) ==
    /\ ipc = "fetch_racecards"
    /\ racecards' = payload
    /\ progress' = ProgressCb(progress, "Fetch summaries")
    /\ ipc' = "after_racecards"
    /\ conn' = IF ExtractList(payload) = << >> THEN db
               ELSE PersistMeeting([db |-> db, counts |-> ZeroCounts, raised |-> FALSE],
                                   ExtractList(payload)[1], date, regions).db
    /\ UNCHANGED << inputVars, results, meetings, results_rows, mi, report, db,
                    artifacts, ended, error, callHistory, saw_cancel, soft_failed,
                    cancel_event, requestLocals, otherVars >>

\* lines 142-148: the racecards fetch returns
RacecardsReturned(payload) ==
    /\ ipc = "fetch_racecards"
    /\ racecards' = payload
    /\ progress' = ProgressCb(progress, "Fetch summaries")
    /\ ipc' = "after_racecards"
    /\ UNCHANGED << inputVars, results, meetings, results_rows, mi, report, storeVars,
                    ended, error, callHistory, saw_cancel, soft_failed,
                    cancel_event, requestLocals, otherVars >>

FetchRacecardsReturns == \E payload \in RacecardPayloads : RacecardsReturned(payload)

\* lines 142-146: the racecards fetch raises; the exception leaves the call
RacecardsRaised(e) ==
    /\ ipc = "fetch_racecards"
    /\ e = "cancelled" => cancel_event
    /\ ipc' = "done"
    /\ ended' = "raised"
    /\ error' = e
    /\ saw_cancel' = (e = "cancelled")
    /\ UNCHANGED << inputVars, localVars, report, storeVars, callHistory,
                    soft_failed, progress, cancel_event, requestLocals, otherVars >>

FetchRacecardsRaises == \E e \in FetchErrors : RacecardsRaised(e)

\* lines 149-151: the cancel check after the racecards fetch
AfterRacecards ==
    /\ ipc = "after_racecards"
    /\ IF cancel_event
       THEN /\ ipc' = "done"
            /\ ended' = "returned"
            /\ saw_cancel' = TRUE
            /\ UNCHANGED results
       ELSE /\ ipc' = "fetch_results"
            /\ results' = Obj(<< << "results", List(<< >>) >> >>)
            /\ UNCHANGED << ended, saw_cancel >>
    /\ UNCHANGED << inputVars, racecards, meetings, results_rows, mi, report,
                    storeVars, error, callHistory, soft_failed, progress,
                    cancel_event, requestLocals, otherVars >>

\* lines 159-165: the two lists are extracted and the connection is opened
EnterPersist(rc, rs) ==
    /\ progress' = ProgressCb(progress, "Fetch details")
    /\ meetings' = ExtractList(rc)
    /\ results_rows' = ExtractList(rs)
    /\ mi' = 1
    /\ conn' = db
    /\ ipc' = "persist"

\* lines 152-153: the results fetch returns
ResultsReturned(payload) ==
    /\ ipc = "fetch_results"
    /\ results' = payload
    /\ EnterPersist(racecards, payload)
    /\ UNCHANGED << inputVars, racecards, report, db, artifacts, ended, error,
                    callHistory, saw_cancel, soft_failed, cancel_event,
                    requestLocals, otherVars >>

FetchResultsReturns == \E payload \in ResultsPayloads : ResultsReturned(payload)

\* lines 154-156: the results fetch raises an error whose text has both
\* "standard" and "plan": a message is appended and the call goes on
FetchResultsPlanRestricted ==
    /\ ipc = "fetch_results"
    /\ report' = [report EXCEPT !.errors = Append(@, PlanMessage)]
    /\ soft_failed' = TRUE
    /\ EnterPersist(racecards, results)
    /\ UNCHANGED << inputVars, racecards, results, db, artifacts, ended, error,
                    callHistory, saw_cancel, cancel_event, requestLocals, otherVars >>

\* lines 157-158: the results fetch raises anything else
ResultsRaised(e) ==
    /\ ipc = "fetch_results"
    /\ e = "cancelled" => cancel_event
    /\ ipc' = "done"
    /\ ended' = "raised"
    /\ error' = e
    /\ saw_cancel' = (e = "cancelled")
    /\ UNCHANGED << inputVars, localVars, report, storeVars, callHistory,
                    soft_failed, progress, cancel_event, requestLocals, otherVars >>

FetchResultsRaises == \E e \in FetchErrors : ResultsRaised(e)

\* lines 166-258: one turn of `for meeting in meetings`
PersistStep ==
    /\ ipc = "persist"
    /\ IF mi > Len(meetings)
       THEN /\ ipc' = "results_rows"
            /\ UNCHANGED << mi, report, conn, db, ended, error, saw_cancel >>
       ELSE IF cancel_event
       THEN /\ ipc' = "results_rows"
            /\ saw_cancel' = TRUE
            /\ UNCHANGED << mi, report, conn, db, ended, error >>
       ELSE LET st == PersistMeeting([db |-> conn, counts |-> report.counts,
                                      raised |-> FALSE],
                                     meetings[mi], date, regions)
            IN /\ report' = [report EXCEPT !.counts = st.counts]
               /\ IF st.raised
                  THEN /\ db' = Rollback(db, st.db)
                       /\ conn' = db'
                       /\ ipc' = "done"
                       /\ ended' = "raised"
                       /\ error' = "persist_error"
                       /\ UNCHANGED << mi, saw_cancel >>
                  ELSE /\ conn' = st.db
                       /\ mi' = mi + 1
                       /\ UNCHANGED << ipc, db, ended, error, saw_cancel >>
    /\ UNCHANGED << inputVars, racecards, results, meetings, results_rows, artifacts,
                    callHistory, soft_failed, progress, cancel_event, requestLocals,
                    otherVars >>

\* lines 260-285: `for row in results_rows`
PersistResultRows ==
    /\ ipc = "results_rows"
    /\ LET st == PersistResults([db |-> conn, counts |-> report.counts,
                                 raised |-> FALSE], results_rows, date, 1)
       IN /\ report' = [report EXCEPT !.counts = st.counts]
          /\ IF st.raised
             THEN /\ db' = Rollback(db, st.db)
                  /\ conn' = db'
                  /\ ipc' = "done"
                  /\ ended' = "raised"
                  /\ error' = "persist_error"
             ELSE /\ conn' = st.db
                  /\ ipc' = "commit"
                  /\ UNCHANGED << db, ended, error >>
    /\ UNCHANGED << inputVars, localVars, artifacts, callHistory, saw_cancel,
                    soft_failed, progress, cancel_event, requestLocals, otherVars >>

\* lines 286-288: conn.commit(), the connection is closed
Commit ==
    /\ ipc = "commit"
    /\ db' = conn
    /\ progress' = ProgressCb(progress, "Write DB")
    /\ ipc' = "write_report"
    /\ UNCHANGED << inputVars, localVars, report, conn, artifacts, ended, error,
                    callHistory, saw_cancel, soft_failed, cancel_event,
                    requestLocals, otherVars >>

\* lines 290-291: the report is written to outdir
WriteReport ==
    /\ ipc = "write_report"
    /\ artifacts' = WriteText(artifacts, ReportName(date), report)
    /\ ipc' = "report_written"
    /\ UNCHANGED << inputVars, localVars, report, conn, db, ended, error, callHistory,
                    saw_cancel, soft_failed, progress, cancel_event, requestLocals,
                    otherVars >>

\* lines 292-294: the last progress call, and the report is returned
ReturnReport ==
    /\ ipc = "report_written"
    /\ progress' = ProgressCb(progress, "Report")
    /\ ipc' = "done"
    /\ ended' = "returned"
    /\ UNCHANGED << inputVars, localVars, report, storeVars, error, callHistory,
                    saw_cancel, soft_failed, cancel_event, requestLocals, otherVars >>

(***************************************************************************)
(*                 flatten_json applied to payloads                        *)
(***************************************************************************)
\* objects and arrays whose leaves are scalars, empty containers included
FlattenInputs ==
    { Obj(<< >>),
      List(<< >>),
      Obj(<< << "a", Obj(<< >>) >> >>),
      Obj(<< << "a", List(<< >>) >> >>),
      Obj(<< << "a", Num(1) >> >>),
      Obj(<< << "a", Null >> >>),
      Obj(<< << "a", Obj(<< << "b", Num(1) >> >>) >> >>),
      Obj(<< << "a.b", Num(1) >> >>),
      Obj(<< << "a", Obj(<< << "b", Num(1) >> >>) >>, << "a.b", Num(2) >> >>),
      Obj(<< << "a", List(<< Num(1) >>) >> >>),
      Obj(<< << "a[0]", Num(1) >> >>),
      List(<< Num(1), Str("x") >>),
      List(<< List(<< >>), Obj(<< << "a", Bool(TRUE) >> >>) >>) }

FlattenIdle ==
    /\ fpc = "idle"
    /\ obj_a = Null
    /\ obj_b = Null
    /\ out_a = << >>
    /\ out_b = << >>

InitFlatten ==
    /\ fpc = "call"
    /\ obj_a \in FlattenInputs
    /\ obj_b \in FlattenInputs
    /\ out_a = << >>
    /\ out_b = << >>

\* flatten_json(obj_a) and flatten_json(obj_b), prefix ""
ApplyFlatten ==
    /\ fpc = "call"
    /\ out_a' = FlattenJson(obj_a, "")
    /\ out_b' = FlattenJson(obj_b, "")
    /\ fpc' = "done"
    /\ UNCHANGED << obj_a, obj_b, requestVars, ingestVars, upsertVars, messageVars,
                    probeVars, cliVars, persistVars, uiVars, fetchVars >>

(***************************************************************************)
(*      The upsert statements of _upsert_entity and ingest_api_day         *)
(***************************************************************************)
\* rows an api_entities statement may bind (lines 71-82)
EntityRows ==
    { [entity_type |-> "race", entity_id |-> id, parent_id |-> p,
       meeting_date |-> Str("2025-01-01"), country |-> c,
       raw_json |-> CompactJson(Obj(<< << "race_id", Str(id) >> >>)),
       raw |-> Obj(<< << "race_id", Str(id) >> >>)] :
        id \in {"r1", "r2"}, p \in {Null, Str("m1")}, c \in {Null, Str("gb")} }

\* rows an api_races statement may bind (lines 194-215)
RaceRows ==
    { [race_id |-> "r1", meeting_id |-> m, race_no |-> n,
       scheduled_start_time |-> Null, distance |-> Null, class |-> Null,
       raw_json |-> "{}"] :
        m \in {"m1", "m2"}, n \in {Null, Num(1)} }

UpsertRows(table) ==
    CASE table = "api_entities" -> EntityRows
      [] table = "api_races" -> RaceRows

UpsertIdle ==
    /\ store = EmptyDb
    /\ last_row = {}
    /\ prev_row = {}

SameKey(g, table, row) ==
    g.table = table /\ PrimaryKey(table, g.row) = PrimaryKey(table, row)

\* conn.execute of one INSERT ... ON CONFLICT ... DO UPDATE statement
ExecuteUpsert(table, row) ==
    /\ store' = Upsert(store, table, row)
    /\ last_row' = {g \in last_row : ~SameKey(g, table, row)}
                       \cup {[table |-> table, row |-> row]}
    /\ prev_row' = {g \in prev_row : ~SameKey(g, table, row)}
                       \cup {g \in last_row : SameKey(g, table, row)}
    /\ UNCHANGED << requestVars, ingestVars, flattenVars, messageVars, probeVars,
                    cliVars, persistVars, uiVars, fetchVars >>

Execute ==
    \E table \in {"api_entities", "api_races"} :
        \E row \in UpsertRows(table) : ExecuteUpsert(table, row)

(***************************************************************************)
(*              _capability_message (lines 165-180)                        *)
(*                                                                         *)
(* A text is the sequence of its characters.  An exception is the record   *)
(* [message, response]: message is str(exc); response is what              *)
(* getattr(exc, "response", None) gives: NoResponse, a response whose text *)
(* property raises, or a response with its body text.                      *)
(***************************************************************************)
UpperCase == << "A", "B", "C", "D", "E", "F", "G", "H", "I", "J", "K", "L", "M",
               "N", "O", "P", "Q", "R", "S", "T", "U", "V", "W", "X", "Y", "Z" >>
LowerCase == << "a", "b", "c", "d", "e", "f", "g", "h", "i", "j", "k", "l", "m",
               "n", "o", "p", "q", "r", "s", "t", "u", "v", "w", "x", "y", "z" >>

\* text.lower()
LowerText(text) ==
    [i \in 1..Len(text) |->
        IF \E n \in 1..Len(UpperCase) : UpperCase[n] = text[i]
        THEN LowerCase[CHOOSE n \in 1..Len(UpperCase) : UpperCase[n] = text[i]]
        ELSE text[i]]

\* word in text
Contains(text, word) ==
    \E i \in 1..(Len(text) - Len(word) + 1) :
        SubSeq(text, i, i + Len(word) - 1) = word

\* text[:n]
Truncate(text, n) == SubSeq(text, 1, Min(n, Len(text)))

\* a text of n characters without any signature
Filler(n) == [i \in 1..n |-> "x"]

NoResponse == [t |-> "none"]
UnreadableResponse == [t |-> "unreadable"]
Response(text) == [t |-> "text", text |-> text]
Exc(message, response) == [message |-> message, response |-> response]

BasicPlanMessage ==
    << "B", "a", "s", "i", "c", " ", "p", "l", "a", "n", " ", "r", "e",
       "s", "t", "r", "i", "c", "t", "i", "o", "n", " ", "d", "e", "t",
       "e", "c", "t", "e", "d", " ", "f", "o", "r", " ", "t", "h", "i",
       "s", " ", "e", "n", "d", "p", "o", "i", "n", "t", "." >>
AuthFailedMessage ==
    << "A", "u", "t", "h", "e", "n", "t", "i", "c", "a", "t", "i", "o",
       "n", " ", "f", "a", "i", "l", "e", "d", ".", " ", "C", "h", "e",
       "c", "k", " ", "A", "P", "I", " ", "c", "r", "e", "d", "e", "n",
       "t", "i", "a", "l", "s", "." >>
RateLimitedMessage ==
    << "R", "a", "t", "e", "-", "l", "i", "m", "i", "t", "e", "d", " ",
       "b", "y", " ", "A", "P", "I", ".", " ", "T", "h", "r", "o", "t",
       "t", "l", "i", "n", "g", " ", "i", "s", " ", "a", "c", "t", "i",
       "v", "e", " ", "a", "t", " ", "2", " ", "r", "e", "q", "u", "e",
       "s", "t", "s", "/", "s", "e", "c", "." >>

\* lines 166-172: text = str(exc), replaced by response.text when the
\* exception carries a response whose text is readable and not empty
ErrorText(e) ==
    IF e.response.t = "text" /\ e.response.text # << >>
    THEN e.response.text
    ELSE e.message

\* a variant that tries the authentication rule before the plan rule
CapabilityMessageAuthFirst(e) ==
    LET text == ErrorText(e)
        text_lower == LowerText(text)
    IN IF \/ Contains(text_lower, << "f", "o", "r", "b", "i", "d", "d", "e", "n" >>)
          \/ Contains(text_lower, << "4", "0", "1" >>)
          \/ Contains(text_lower, << "4", "0", "3" >>)
       THEN AuthFailedMessage
       ELSE IF /\ Contains(text_lower, << "b", "a", "s", "i", "c" >>)
               /\ Contains(text_lower, << "p", "l", "a", "n" >>)
       THEN BasicPlanMessage
       ELSE IF /\ Contains(text_lower, << "r", "a", "t", "e" >>)
               /\ Contains(text_lower, << "l", "i", "m", "i", "t" >>)
       THEN RateLimitedMessage
       ELSE Truncate(text, TruncateAt)

\* lines 165-180
CapabilityMessage(e) ==
    LET text == ErrorText(e)
        text_lower == LowerText(text)
    IN IF /\ Contains(text_lower, << "b", "a", "s", "i", "c" >>)
          /\ Contains(text_lower, << "p", "l", "a", "n" >>)
       THEN BasicPlanMessage
       ELSE IF \/ Contains(text_lower, << "f", "o", "r", "b", "i", "d", "d", "e", "n" >>)
               \/ Contains(text_lower, << "4", "0", "1" >>)
               \/ Contains(text_lower, << "4", "0", "3" >>)
       THEN AuthFailedMessage
       ELSE IF /\ Contains(text_lower, << "r", "a", "t", "e" >>)
               /\ Contains(text_lower, << "l", "i", "m", "i", "t" >>)
       THEN RateLimitedMessage
       ELSE Truncate(text, TruncateAt)

\* error texts: the signatures in either case, alone, combined and inside
\* longer words; texts of 200 characters, of more, and with a signature
\* beyond the 200th character
ErrorTexts ==
    { << "B", "a", "s", "i", "c", " ", "P", "l", "a", "n", " ", "r", "e",
         "q", "u", "i", "r", "e", "d" >>,
      << "p", "l", "a", "n", ":", " ", "B", "A", "S", "I", "C" >>,
      << "b", "a", "s", "i", "c" >>,
      << "F", "o", "r", "b", "i", "d", "d", "e", "n", " ", "o", "n", " ",
         "b", "a", "s", "i", "c", " ", "p", "l", "a", "n" >>,
      << "H", "T", "T", "P", " ", "4", "0", "1" >>,
      << "4", "0", "3", " ", "C", "l", "i", "e", "n", "t", " ", "E", "r",
         "r", "o", "r" >>,
      << "R", "a", "t", "e", " ", "L", "i", "m", "i", "t", " ", "4", "0",
         "3" >>,
      << "l", "i", "m", "i", "t", " ", "y", "o", "u", "r", " ", "r", "a",
         "t", "e" >>,
      << "a", "c", "c", "e", "l", "e", "r", "a", "t", "e", "d", " ", "s",
         "u", "b", "l", "i", "m", "i", "t" >>,
      << "r", "a", "t", "e" >>,
      << "b", "o", "o", "m" >>,
      << "R", "e", "q", "u", "e", "s", "t", " ", "c", "a", "n", "c", "e",
         "l", "l", "e", "d" >>,
      Filler(TruncateAt),
      Filler(TruncateAt + 1),
      Filler(TruncateAt) \o << "4", "0", "3" >> }

\* a message of str(exc) alone, or a response body with some str(exc)
ExcInputs ==
    {Exc(m, NoResponse) : m \in ErrorTexts}
        \cup {Exc(m, UnreadableResponse) : m \in ErrorTexts}
        \cup {Exc(m, Response(b)) : m \in ErrorTexts, b \in ErrorTexts \cup {<< >>}}

MessageIdle ==
    /\ mpc = "idle"
    /\ raised = Exc(<< >>, NoResponse)
    /\ msg = << >>

InitMessage ==
    /\ mpc = "call"
    /\ raised \in ExcInputs
    /\ msg = << >>

\* one application of _capability_message
ApplyCapabilityMessage ==
    /\ mpc = "call"
    /\ mpc' = "done"
    /\ msg' = CapabilityMessage(raised)
    /\ UNCHANGED << raised, requestVars, ingestVars, flattenVars, upsertVars,
                    probeVars, cliVars, persistVars, uiVars, fetchVars >>

(***************************************************************************)
(*        TheRacingAPIClient.probe_capabilities (lines 125-162)            *)
(*                                                                         *)
(* Each fetch is one _request call, seen here by its outcome: it returns,  *)
(* or it raises an exception.  With the cancel event set when the call     *)
(* starts, _request raises "Request cancelled" before sending anything     *)
(* (lines 60-61).                                                          *)
(***************************************************************************)
GB == << "g", "b" >>
IRE == << "i", "r", "e" >>
HK == << "H", "K" >>

RECURSIVE ProbeRegionLists(_)
ProbeRegionLists(n) ==
    IF n = 0 THEN {<< >>}
    ELSE LET shorter == ProbeRegionLists(n - 1)
         IN shorter \cup {Append(l, r) : l \in shorter, r \in {GB, IRE, HK}}

CancelledExc == Exc(<< "R", "e", "q", "u", "e", "s", "t", " ", "c", "a",
                       "n", "c", "e", "l", "l", "e", "d" >>, NoResponse)

\* the exception of a 401 answer whose body says that the plan is too small
BasicPlanRequired ==
    Exc(<< "4", "0", "1", " ", "C", "l", "i", "e", "n", "t", " ", "E",
           "r", "r", "o", "r" >>,
        Response(<< "B", "a", "s", "i", "c", " ", "P", "l", "a", "n", " ",
                    "r", "e", "q", "u", "i", "r", "e", "d" >>))

\* what the upstream answers with when it refuses or fails
UpstreamErrors ==
    { Exc(<< "4", "0", "3", " ", "C", "l", "i", "e", "n", "t", " ", "E",
             "r", "r", "o", "r" >>, NoResponse),
      BasicPlanRequired,
      Exc(<< "b", "o", "o", "m" >>, NoResponse) }

\* the outcomes of one fetch: it returns, or it raises an exception
Returns == [returned |-> TRUE]
Raises(e) == [returned |-> FALSE, exc |-> e]

FetchOutcomes(cancelled) ==
    IF cancelled THEN {Raises(CancelledExc)}
    ELSE {Returns} \cup {Raises(e) : e \in UpstreamErrors}

RECURSIVE JoinTexts(_, _)
JoinTexts(texts, sep) ==
    IF texts = << >> THEN << >>
    ELSE IF Len(texts) = 1 THEN texts[1]
    ELSE texts[1] \o sep \o JoinTexts(Tail(texts), sep)

NoExc == Exc(<< >>, NoResponse)

\* lines 112-123: the _request call of each fetch method
RequestOf(by, day, countries) ==
    [by |-> by, given |-> countries, method |-> "GET",
     path |-> CASE by = "fetch_daily_racecards" -> "racecards"
                [] by = "fetch_daily_racecard_summaries" -> "racecards/summaries"
                [] by = "fetch_daily_results" -> "results",
     params |-> << << "date", day >>,
                   << "country", JoinTexts(countries, << "," >>) >> >>]

ProbeDate == "2026-02-15"

\* line 127: regions or ["gb"]
ProbeRegions(regions_arg) == IF regions_arg = << >> THEN << GB >> ELSE regions_arg

PlanLimitsPrefix ==
    << "P", "l", "a", "n", " ", "l", "i", "m", "i", "t", "s", " ", "r",
       "a", "c", "e", "c", "a", "r", "d", "s", " ", "f", "o", "r", ":",
       " " >>
AccessAvailableMessage ==
    << "R", "a", "c", "e", "c", "a", "r", "d", " ", "s", "u", "m", "m",
       "a", "r", "y", " ", "a", "c", "c", "e", "s", "s", " ", "a", "v",
       "a", "i", "l", "a", "b", "l", "e", "." >>

\* a variant that reports racecard access whenever the auth check passed
FinishAlwaysCan(res, available, blocked) ==
    [res EXCEPT !.available_regions = available, !.can_racecards = TRUE]

\* lines 156-162
Finish(res, available, blocked) ==
    LET r1 == [res EXCEPT !.available_regions = available,
                          !.can_racecards = available # << >>]
        r2 == IF blocked # << >> /\ r1.plan_message = << >>
              THEN [r1 EXCEPT !.plan_message =
                        PlanLimitsPrefix \o JoinTexts(blocked, << ",", " " >>)]
              ELSE r1
    IN IF r2.can_racecards /\ r2.plan_message = << >>
       THEN [r2 EXCEPT !.plan_message = AccessAvailableMessage]
       ELSE r2

ProbeIdle ==
    /\ ppc = "idle"
    /\ requested = << >>
    /\ probe_cancel = FALSE
    /\ region_index = 0
    /\ result = [auth_ok |-> FALSE]
    /\ available_regions = << >>
    /\ blocked_regions = << >>
    /\ fetches = << >>
    /\ sent = << >>

\* lines 126-134: the call has built its report and is about to fetch
InitProbeCall ==
    /\ ppc = "auth"
    /\ requested \in ProbeRegionLists(MaxRegions)
    /\ probe_cancel = FALSE
    /\ region_index = 0
    /\ result = [auth_ok |-> FALSE, can_racecards |-> FALSE, plan_message |-> << >>,
                 rate_limit_rps |-> 20, available_regions |-> << >>]
    /\ available_regions = << >>
    /\ blocked_regions = << >>
    /\ fetches = << >>
    /\ sent = << >>

probeRest == << requestVars, ingestVars, flattenVars, upsertVars, messageVars,
               cliVars, persistVars, uiVars, fetchVars >>

\* the UI thread sets the cancel event while the probe runs
SetProbeCancel ==
    /\ ppc \in {"auth", "region", "fallback"}
    /\ ~probe_cancel
    /\ probe_cancel' = TRUE
    /\ UNCHANGED << ppc, requested, region_index, result, available_regions,
                    blocked_regions, fetches, sent, probeRest >>

\* lines 135-140: the results request that checks the credentials
AuthCheck ==
    /\ ppc = "auth"
    /\ sent' = Append(sent, RequestOf("fetch_daily_results", ProbeDate,
                                      ProbeRegions(requested)))
    /\ \E o \in FetchOutcomes(probe_cancel) :
          IF o.returned
          THEN /\ result' = [result EXCEPT !.auth_ok = TRUE]
               /\ ppc' = "region"
               /\ region_index' = 1
          ELSE /\ result' = [result EXCEPT !.plan_message = CapabilityMessage(o.exc)]
               /\ ppc' = "done"
               /\ UNCHANGED region_index
    /\ UNCHANGED << requested, probe_cancel, available_regions, blocked_regions,
                    fetches, probeRest >>

\* the end of one iteration of the loop of line 144, and lines 156-162 after
\* the last one
NextRegion(res, available, blocked) ==
    /\ available_regions' = available
    /\ blocked_regions' = blocked
    /\ IF region_index = Len(ProbeRegions(requested))
       THEN /\ result' = Finish(res, available, blocked)
            /\ ppc' = "done"
            /\ UNCHANGED region_index
       ELSE /\ result' = res
            /\ ppc' = "region"
            /\ region_index' = region_index + 1

\* lines 145-146: the event is set when an iteration starts
ProbeCancelled ==
    /\ ppc = "region"
    /\ probe_cancel
    /\ ppc' = "raised"
    /\ UNCHANGED << requested, probe_cancel, region_index, result, available_regions,
                    blocked_regions, fetches, sent, probeRest >>

\* lines 147-149 with 117-118: the racecards/summaries request of a region
FetchSummaries ==
    /\ ppc = "region"
    /\ ~probe_cancel
    /\ LET region == ProbeRegions(requested)[region_index]
       IN \E c \in {probe_cancel, TRUE} : \E o \in FetchOutcomes(c) :
             /\ probe_cancel' = c
             /\ sent' = Append(sent, RequestOf("fetch_daily_racecard_summaries",
                                               ProbeDate, << region >>))
             /\ IF o.returned
                THEN /\ fetches' = Append(fetches, [region |-> region,
                                                    returned |-> TRUE, exc |-> NoExc])
                     /\ NextRegion(result, Append(available_regions, region),
                                   blocked_regions)
                ELSE /\ ppc' = "fallback"
                     /\ UNCHANGED << region_index, result, available_regions,
                                     blocked_regions, fetches >>
    /\ UNCHANGED << requested, probeRest >>

\* lines 119-120 and 149-154: the racecards request made when the summaries
\* request raised
FetchRacecardsFallback ==
    /\ ppc = "fallback"
    /\ sent' = Append(sent, RequestOf("fetch_daily_racecards", ProbeDate,
                                      << ProbeRegions(requested)[region_index] >>))
    /\ LET region == ProbeRegions(requested)[region_index]
       IN \E o \in FetchOutcomes(probe_cancel) :
             IF o.returned
             THEN /\ fetches' = Append(fetches, [region |-> region,
                                                 returned |-> TRUE, exc |-> NoExc])
                  /\ NextRegion(result, Append(available_regions, region),
                                blocked_regions)
             ELSE LET message == CapabilityMessage(o.exc)
                  IN /\ fetches' = Append(fetches, [region |-> region,
                                                    returned |-> FALSE, exc |-> o.exc])
                     /\ NextRegion(IF message # << >> /\ result.plan_message = << >>
                                   THEN [result EXCEPT !.plan_message = message]
                                   ELSE result,
                                   available_regions, Append(blocked_regions, region))
    /\ UNCHANGED << requested, probe_cancel, probeRest >>


(***************************************************************************)
(*        The Persist step (lines 165-285) on an empty store               *)
(*                                                                         *)
(* meetings and results_rows are what _extract_list gave; the cancel event *)
(* is not set.  The loop over the meetings runs, then the loop over the    *)
(* results rows.                                                           *)
(***************************************************************************)
PersistDate == "2025-01-01"
PersistRegions == << "gb" >>

\* a runner whose nested objects carry type fields, id fields, or neither
RunnerNested ==
    Obj(<< << "runner_id", Str("ru5") >>,
           << "connections", Obj(<< << "type", Str("Owner") >>,
                                    << "trainer_id", Str("t9") >> >>) >>,
           << "jockey", Obj(<< << "name", Str("J") >> >>) >>,
           << "horse", Obj(<< << "type", Str("Horse") >>, << "id", Str("h1") >> >>) >>,
           << "owner", Obj(<< << "entity_type", Str("syndicate") >> >>) >> >>)

MeetingNested ==
    Obj(<< << "meeting_id", Str("m5") >>,
           << "races", List(<< Obj(<< << "race_id", Str("r5") >>,
                                      << "runners", List(<< RunnerNested >>) >> >>) >>) >> >>)

\* runners that name their race but carry no id of their own, and a race
\* that names its meeting but carries no id of its own
MeetingParentFields ==
    Obj(<< << "meeting_id", Str("m6") >>,
           << "races", List(<<
               Obj(<< << "race_id", Str("r6") >>,
                      << "runners", List(<<
                          Obj(<< << "race_id", Str("r6") >>, << "name", Str("A") >> >>),
                          Obj(<< << "race_id", Str("r6") >>, << "name", Str("B") >> >>) >>) >> >>),
               Obj(<< << "meeting_id", Str("m6") >>, << "race_no", Num(2) >> >>) >>) >> >>)

\* a runner with a field named "race" and a nested object typed "runner"
MeetingShadowing ==
    Obj(<< << "meeting_id", Str("m7") >>,
           << "races", List(<< Obj(<<
               << "race_id", Str("r7") >>,
               << "runners", List(<< Obj(<<
                   << "runner_id", Str("ru7") >>,
                   << "race", Obj(<< << "race_id", Str("r7") >>,
                                     << "going", Str("soft") >> >>) >>,
                   << "previous", Obj(<< << "type", Str("RUNNER") >>,
                                         << "id", Str("ru7") >> >>) >> >>) >>) >> >>) >>) >> >>)

\* the same trainer embedded in two runners
MeetingSharedTrainer ==
    Obj(<< << "meeting_id", Str("m8") >>,
           << "races", List(<< Obj(<<
               << "race_id", Str("r8") >>,
               << "runners", List(<<
                   Obj(<< << "runner_id", Str("ru8") >>,
                          << "trainer", Obj(<< << "id", Str("t1") >>,
                                               << "name", Str("T") >> >>) >> >>),
                   Obj(<< << "runner_id", Str("ru9") >>,
                          << "trainer", Obj(<< << "id", Str("t1") >>,
                                               << "name", Str("T") >> >>) >> >>) >>) >> >>) >>) >> >>)

PersistMeetingLists ==
    { << Meeting1 >>,
      << MeetingNested >>,
      << MeetingParentFields >>,
      << MeetingShadowing >>,
      << MeetingSharedTrainer >>,
      << MeetingNoIds, Meeting1 >> }

PersistRowLists ==
    { << >>,
      << Obj(<< << "race_id", Str("r1") >>, << "winner_runner_id", Str("ru2") >> >>) >>,
      << Obj(<< << "race_id", Str("r1") >>, << "winner_runner_id", Str("ru2") >>,
                << "finish_order", List(<< Str("ru1"), Str("ru2") >>) >> >>) >>,
      << Obj(<< << "race_id", Str("r1") >>,
                << "finish_order", List(<< Obj(<< << "runner_id", Str("ru1") >> >>) >>) >> >>),
         Obj(<< << "race_id", Str("r2") >>, << "placing", List(<< Str("ru3") >>) >> >>) >>,
      << Obj(<< << "race_id", Str("r1") >>, << "status", Str("void") >> >>),
         Obj(<< << "race_id", Str("r2") >>, << "finish_order", List(<< >>) >> >>),
         Obj(<< << "race_id", Str("r3") >>, << "winner_runner_id", Num(7) >> >>) >>,
      << Obj(<< << "race_id", Str("r1") >>, << "id", Str("x") >> >>),
         Obj(<< << "race_id", Str("r2") >>, << "id", Str("x") >>,
                << "winner_runner_id", Str("ru1") >> >>) >>,
      << Obj(<< << "race_id", Str("r1") >>, << "winner_runner_id", Null >>,
                << "finish_order", List(<< Str("ru1") >>) >> >>),
         Obj(<< << "race_id", Str("r2") >>,
                << "finish_order", List(<< Obj(<< << "name", Str("A") >> >>) >>) >> >>) >> }

NewPersistState == [db |-> EmptyDb, counts |-> ZeroCounts, raised |-> FALSE]

PersistIdle ==
    /\ spc = "idle"
    /\ given_meetings = << >>
    /\ given_rows = << >>
    /\ pst = NewPersistState

InitPersistCall ==
    /\ spc = "meetings"
    /\ given_meetings \in PersistMeetingLists
    /\ given_rows \in PersistRowLists
    /\ pst = NewPersistState

persistRest == << requestVars, ingestVars, flattenVars, upsertVars, messageVars,
                 probeVars, cliVars, uiVars, fetchVars >>

\* lines 166-258: `for meeting in meetings`, to its end
RECURSIVE PersistMeetingList(_, _, _)
PersistMeetingList(st, list, i) ==
    IF st.raised \/ i > Len(list) THEN st
    ELSE PersistMeetingList(PersistMeeting(st, list[i], PersistDate, PersistRegions),
                            list, i + 1)

PersistAllMeetings ==
    /\ spc = "meetings"
    /\ pst' = PersistMeetingList(pst, given_meetings, 1)
    /\ spc' = "results"
    /\ UNCHANGED << given_meetings, given_rows, persistRest >>

\* lines 260-285: `for row in results_rows`, to its end
PersistAllResults ==
    /\ spc = "results"
    /\ pst' = PersistResults(pst, given_rows, PersistDate, 1)
    /\ spc' = "done"
    /\ UNCHANGED << given_meetings, given_rows, persistRest >>

(***************************************************************************)
(*                    APITab (ui/tabs/api_tab.py)                          *)
(*                                                                         *)
(* The UI thread runs one callback at a time: a button command or _poll.   *)
(* A worker thread runs the job, puts messages on msg_queue and ends after *)
(* putting "done".  The Train and Picks buttons are left out: they start   *)
(* jobs through _run_bg as Discover does.  The text entries are seen by    *)
(* whether all of them are filled in; editing them calls no handler.       *)
(***************************************************************************)
JobLabels == {"test connection", "detect capabilities", "discover racecards", "ingest"}

Caps(can) == [type |-> "caps", can_racecards |-> can]
Done == [type |-> "done", can_racecards |-> FALSE]

\* _refresh_buttons, lines 237-253: the states it gives the three buttons
RefreshedIngest(entries, mode, caps) ==
    IF entries /\ ~(mode = "auto" /\ ~caps.can_racecards) THEN "normal" ELSE "disabled"

RefreshedDiscover(entries) == IF entries THEN "normal" ELSE "disabled"

\* a variant of line 253 that leaves the Cancel button to _set_busy
RefreshedCancelKept(current) == current

\* line 253: self.cancel_btn.configure(state="disabled")
RefreshedCancel(current) == "disabled"

RefreshButtons(mode) ==
    /\ ingest_btn' = RefreshedIngest(entries_ok, mode, capabilities)
    /\ discover_btn' = RefreshedDiscover(entries_ok)
    /\ cancel_btn' = RefreshedCancel(cancel_btn)

UiIdle ==
    /\ tab = "none"
    /\ entries_ok = FALSE
    /\ mode_var = "auto"
    /\ capabilities = [can_racecards |-> FALSE]
    /\ discover_btn = "disabled"
    /\ ingest_btn = "disabled"
    /\ cancel_btn = "disabled"
    /\ ui_cancel_event = FALSE
    /\ workers = {}
    /\ msg_queue = << >>
    /\ started = 0
    /\ held_for = {}

\* __init__, lines 55-62: the date entry is empty, the mode is "auto", the
\* capabilities are unknown, and _refresh_credential_state has refreshed the
\* buttons
InitTab ==
    /\ tab = "built"
    /\ entries_ok = FALSE
    /\ mode_var = "auto"
    /\ capabilities = [can_racecards |-> FALSE]
    /\ discover_btn = RefreshedDiscover(FALSE)
    /\ ingest_btn = RefreshedIngest(FALSE, "auto", [can_racecards |-> FALSE])
    /\ cancel_btn = "disabled"
    /\ ui_cancel_event = FALSE
    /\ workers = {}
    /\ msg_queue = << >>
    /\ started = 0
    /\ held_for = {}

uiRest == << requestVars, ingestVars, flattenVars, upsertVars, messageVars,
            probeVars, cliVars, persistVars, fetchVars >>

\* the user fills in or empties an entry
EditEntries ==
    /\ tab = "built"
    /\ entries_ok' = ~entries_ok
    /\ UNCHANGED << tab, mode_var, capabilities, discover_btn, ingest_btn, cancel_btn,
                    ui_cancel_event, workers, msg_queue, started, held_for, uiRest >>

\* the Apply button (never disabled): _apply_settings, lines 213-228, whose
\* _refresh_credential_state calls _refresh_buttons
ClickApply ==
    /\ tab = "built"
    /\ RefreshButtons(mode_var)
    /\ UNCHANGED << tab, entries_ok, mode_var, capabilities, ui_cancel_event, workers,
                    msg_queue, started, held_for, uiRest >>

\* a mode radio button: the variable is set, then command=_refresh_buttons
SelectMode(mode) ==
    /\ tab = "built"
    /\ mode_var' = mode
    /\ RefreshButtons(mode)
    /\ UNCHANGED << tab, entries_ok, capabilities, ui_cancel_event, workers, msg_queue,
                    started, held_for, uiRest >>

ClickMode == \E mode \in {"auto", "manual"} : SelectMode(mode)

\* a Browse button with a path chosen: _pick_db / _pick_outdir, lines 201-211
Browse ==
    /\ tab = "built"
    /\ RefreshButtons(mode_var)
    /\ UNCHANGED << tab, entries_ok, mode_var, capabilities, ui_cancel_event, workers,
                    msg_queue, started, held_for, uiRest >>

\* _run_bg, lines 304-321, with _set_busy(True), lines 370-376
RunBg(label) ==
    /\ tab = "built"
    /\ started < MaxJobs
    /\ ui_cancel_event' = FALSE
    /\ discover_btn' = "disabled"
    /\ ingest_btn' = "disabled"
    /\ cancel_btn' = "normal"
    /\ workers' = workers \cup {[id |-> started + 1, label |-> label, stage |-> "running"]}
    /\ started' = started + 1
    /\ UNCHANGED << tab, entries_ok, mode_var, capabilities, msg_queue, held_for, uiRest >>

\* the Test Connection and Detect buttons (never disabled), lines 268-272
ClickTestConnection == RunBg("test connection")
ClickDetectCapabilities == RunBg("detect capabilities")

\* the Discover and Ingest buttons: a disabled button runs no command
ClickDiscover == discover_btn = "normal" /\ RunBg("discover racecards")
ClickIngest == ingest_btn = "normal" /\ RunBg("ingest")

\* the Cancel button: command=self.cancel_event.set (line 149)
ClickCancel ==
    /\ tab = "built"
    /\ cancel_btn = "normal"
    /\ ui_cancel_event' = TRUE
    /\ held_for' = {w.id : w \in workers}
    /\ UNCHANGED << tab, entries_ok, mode_var, capabilities, discover_btn, ingest_btn,
                    cancel_btn, workers, msg_queue, started, uiRest >>

\* a worker whose job probes (lines 278, 285, 330) puts the report on the queue
WorkerPutsCaps(w, can) ==
    /\ w.stage = "running"
    /\ \/ w.label \in {"test connection", "detect capabilities"}
       \/ w.label = "ingest" /\ mode_var = "auto"
    /\ msg_queue' = Append(msg_queue, Caps(can))
    /\ workers' = (workers \ {w}) \cup {[w EXCEPT !.stage = "reported"]}
    /\ UNCHANGED << tab, entries_ok, mode_var, capabilities, discover_btn, ingest_btn,
                    cancel_btn, ui_cancel_event, started, held_for, uiRest >>

WorkerReports == \E w \in workers, can \in BOOLEAN : WorkerPutsCaps(w, can)

\* lines 318-319: the job has returned or raised; finally: put ("done", {})
WorkerPutsDone(w) ==
    /\ msg_queue' = Append(msg_queue, Done)
    /\ workers' = workers \ {w}
    /\ held_for' = held_for \ {w.id}
    /\ UNCHANGED << tab, entries_ok, mode_var, capabilities, discover_btn, ingest_btn,
                    cancel_btn, ui_cancel_event, started, uiRest >>

WorkerEnds == \E w \in workers : WorkerPutsDone(w)

\* the loop of _poll, lines 378-402, over the messages q: "caps" replaces
\* self.capabilities; "done" calls _set_busy(False) and _refresh_buttons
RECURSIVE PollLoop(_, _)
PollLoop(q, ui) ==
    IF q = << >> THEN ui
    ELSE IF Head(q).type = "caps"
    THEN PollLoop(Tail(q), [ui EXCEPT !.capabilities =
                                          [can_racecards |-> Head(q).can_racecards]])
    ELSE PollLoop(Tail(q),
                  [ui EXCEPT !.ingest_btn = RefreshedIngest(entries_ok, mode_var,
                                                            ui.capabilities),
                             !.discover_btn = RefreshedDiscover(entries_ok),
                             !.cancel_btn = RefreshedCancel("disabled")])

Poll ==
    /\ tab = "built"
    /\ msg_queue # << >>
    /\ LET ui == PollLoop(msg_queue,
                          [capabilities |-> capabilities, ingest_btn |-> ingest_btn,
                           discover_btn |-> discover_btn, cancel_btn |-> cancel_btn])
       IN /\ capabilities' = ui.capabilities
          /\ ingest_btn' = ui.ingest_btn
          /\ discover_btn' = ui.discover_btn
          /\ cancel_btn' = ui.cancel_btn
    /\ msg_queue' = << >>
    /\ UNCHANGED << tab, entries_ok, mode_var, ui_cancel_event, workers, started,
                    held_for, uiRest >>

(***************************************************************************)
(*                  cli.main, command `api ingest`                         *)
(*                                                                         *)
(* The command line is seen by its --region and --country flags, in the    *)
(* order given; --db and --date are present (argparse requires them) and   *)
(* --outdir is left to its default.  ingest_api_day is seen by how it      *)
(* ends: it returns a report or it raises.                                 *)
(***************************************************************************)
Flag(name, value) == [name |-> name, value |-> value]

FlagValues == {GB, HK, << "I", "R", "E" >>, << "H", "K", "G" >>}

Flags == {Flag(n, v) : n \in {"--region", "--country"}, v \in FlagValues}

RECURSIVE FlagLists(_)
FlagLists(n) ==
    IF n = 0 THEN {<< >>}
    ELSE LET shorter == FlagLists(n - 1)
         IN shorter \cup {Append(l, f) : l \in shorter, f \in Flags}

SelectFlags(flags, name) == SelectSeq(flags, LAMBDA f : f.name = name)

\* two destinations, joined afterwards: not what build_parser declares
ParseRegionsByFlag(flags) ==
    [i \in 1..Len(flags) |->
        (SelectFlags(flags, "--country") \o SelectFlags(flags, "--region"))[i].value]

\* parse_args with both flags declared dest="regions", action="append",
\* default=[]: each occurrence appends its value to the one list
ParseRegions(flags) == [i \in 1..Len(flags) |-> flags[i].value]

\* normalize_region_code: the code in lower case, a country alias replaced
\* by its region code
NormalizeRegionCode(code) ==
    LET lowered == LowerText(code)
    IN IF lowered = << "h", "k", "g" >> THEN << "h", "k" >> ELSE lowered

\* the arguments of the call of line 54
IngestCall(region_codes) ==
    [db_path |-> "output/racing.sqlite", date |-> "2026-02-15",
     regions |-> region_codes, outdir |-> "output"]

CliIdle ==
    /\ cpc = "idle"
    /\ argv = << >>
    /\ args_regions = << >>
    /\ ingest_calls = << >>
    /\ printed = FALSE
    /\ returned = << >>
    /\ propagated = FALSE

InitCliRun ==
    /\ cpc = "parse"
    /\ argv \in FlagLists(MaxFlags)
    /\ args_regions = << >>
    /\ ingest_calls = << >>
    /\ printed = FALSE
    /\ returned = << >>
    /\ propagated = FALSE

cliRest == << requestVars, ingestVars, flattenVars, upsertVars, messageVars,
             probeVars, persistVars, uiVars, fetchVars >>

\* line 44: args = build_parser().parse_args(argv)
ParseArgs ==
    /\ cpc = "parse"
    /\ args_regions' = ParseRegions(argv)
    /\ cpc' = "ingest"
    /\ UNCHANGED << argv, ingest_calls, printed, returned, propagated, cliRest >>

\* lines 53-54: the regions are normalised and ingest_api_day is called; it
\* returns, or the exception it raises leaves main (nothing catches it)
CallIngest ==
    /\ cpc = "ingest"
    /\ LET region_codes == [i \in 1..Len(args_regions) |->
                               NormalizeRegionCode(args_regions[i])]
       IN ingest_calls' = Append(ingest_calls, IngestCall(region_codes))
    /\ \E returns \in BOOLEAN :
           IF returns
           THEN /\ cpc' = "print"
                /\ UNCHANGED propagated
           ELSE /\ cpc' = "done"
                /\ propagated' = TRUE
    /\ UNCHANGED << argv, args_regions, printed, returned, cliRest >>

\* lines 55-56: print(json.dumps(report, indent=2)); return 0
PrintAndReturn ==
    /\ cpc = "print"
    /\ printed' = TRUE
    /\ returned' = << 0 >>
    /\ cpc' = "done"
    /\ UNCHANGED << argv, args_regions, ingest_calls, propagated, cliRest >>

(***************************************************************************)
(*                             Specifications                              *)
(***************************************************************************)
\* no ingest_api_day call runs
IngestIdle ==
    /\ ipc = "idle"
    /\ progress = << >>
    /\ date = ""
    /\ regions = << >>
    /\ racecards = Null
    /\ results = Null
    /\ meetings = << >>
    /\ results_rows = << >>
    /\ mi = 0
    /\ report = NewReport
    /\ conn = EmptyDb
    /\ db = EmptyDb
    /\ artifacts = {}
    /\ ended = "none"
    /\ error = "none"
    /\ runs = 0
    /\ db_before = EmptyDb
    /\ artifacts_before = {}
    /\ saw_cancel = FALSE
    /\ soft_failed = FALSE
    /\ prev = NoPrev

\* __post_init__ sets _last_request_at = 0.0: the first difference is the
\* value of time.monotonic() itself, anything from 0 upwards
InitRequest ==
    /\ backend \in {"requests", "urllib"}
    /\ max_retries \in 0..MaxRetriesBound
    /\ rate_limit_rps \in RpsChoices
    /\ since_stamp \in {0, min_request_interval}
    /\ cancel_event = FALSE
    /\ rpc = "idle"
    /\ attempt = 0
    /\ backoff = InitialBackoff
    /\ sleep_seconds = 0
    /\ sleep_elapsed = 0
    /\ sleep_step = 0
    /\ sleep_for = "none"
    /\ outcome = "none"
    /\ calls = 0
    /\ sends = 0
    /\ pattern = "only_503"
    /\ last_response = "none"
    /\ since_send = -1
    /\ send_gap = -1
    /\ since_cancel = -1
    /\ cancel_during = "none"
    /\ sends_at_cancel = -1

NextRequest ==
    \/ StartRequest
    \/ Pause
    \/ SetCancel
    \/ LoopHead
    \/ SleepCheck
    \/ SleepWake
    \/ Send

\* a client with the default settings on which no _request call runs
RequestIdle ==
    /\ InitRequest
    /\ backend = "requests"
    /\ max_retries = 2
    /\ rate_limit_rps = 20
    /\ since_stamp = min_request_interval

\* a client of any backend and settings, and no ingest_api_day call
InitClient == InitRequest /\ IngestIdle /\ FlattenIdle /\ UpsertIdle
                 /\ MessageIdle /\ ProbeIdle /\ CliIdle /\ PersistIdle /\ UiIdle /\ FetchIdle

\* one client and its _request calls
SpecRequest == InitClient /\ [][NextRequest]_vars

\* ensure_db has created the six tables, empty; calls of ingest_api_day follow
Init == IngestIdle /\ RequestIdle /\ FlattenIdle /\ UpsertIdle
                 /\ MessageIdle /\ ProbeIdle /\ CliIdle /\ PersistIdle /\ UiIdle /\ FetchIdle

Next ==
    \/ Start
    \/ CancelIngest
    \/ FetchRacecardsReturns
    \/ FetchRacecardsRaises
    \/ AfterRacecards
    \/ FetchResultsReturns
    \/ FetchResultsPlanRestricted
    \/ FetchResultsRaises
    \/ PersistStep
    \/ PersistResultRows
    \/ Commit
    \/ WriteReport
    \/ ReturnReport

Spec == Init /\ [][Next]_vars

\* flatten_json applied to any two of the inputs
InitPure == InitFlatten /\ IngestIdle /\ RequestIdle /\ UpsertIdle
                 /\ MessageIdle /\ ProbeIdle /\ CliIdle /\ PersistIdle /\ UiIdle /\ FetchIdle

NextFlatten == ApplyFlatten

SpecFlatten == InitPure /\ [][NextFlatten]_vars

\* upsert statements on the empty tables that ensure_db creates
NextUpsert == Execute

SpecUpsert == Init /\ [][NextUpsert]_vars

InitProbe == InitProbeCall /\ IngestIdle /\ RequestIdle /\ FlattenIdle /\ UpsertIdle
                 /\ MessageIdle /\ CliIdle /\ PersistIdle /\ UiIdle /\ FetchIdle

NextProbe ==
    \/ SetProbeCancel
    \/ AuthCheck
    \/ ProbeCancelled
    \/ FetchSummaries
    \/ FetchRacecardsFallback

\* one call of probe_capabilities
SpecProbe == InitProbe /\ [][NextProbe]_vars

InitError == InitMessage /\ IngestIdle /\ RequestIdle /\ FlattenIdle /\ UpsertIdle
                 /\ ProbeIdle /\ CliIdle /\ PersistIdle /\ UiIdle /\ FetchIdle

NextMessage == ApplyCapabilityMessage

\* _capability_message applied to one exception
SpecMessage == InitError /\ [][NextMessage]_vars

InitCli == InitCliRun /\ IngestIdle /\ RequestIdle /\ FlattenIdle /\ UpsertIdle
                 /\ MessageIdle /\ ProbeIdle /\ PersistIdle /\ UiIdle /\ FetchIdle

NextCli ==
    \/ ParseArgs
    \/ CallIngest
    \/ PrintAndReturn

\* one run of the command `api ingest`
SpecCli == InitCli /\ [][NextCli]_vars

InitPersist == InitPersistCall /\ IngestIdle /\ RequestIdle /\ FlattenIdle
                 /\ UpsertIdle /\ MessageIdle /\ ProbeIdle /\ CliIdle /\ UiIdle /\ FetchIdle

NextPersist ==
    \/ PersistAllMeetings
    \/ PersistAllResults

\* the Persist step of one call on an empty store
SpecPersist == InitPersist /\ [][NextPersist]_vars

InitUi == InitTab /\ IngestIdle /\ RequestIdle /\ FlattenIdle /\ UpsertIdle
                 /\ MessageIdle /\ ProbeIdle /\ CliIdle /\ PersistIdle /\ FetchIdle

NextUi ==
    \/ EditEntries
    \/ ClickApply
    \/ ClickMode
    \/ Browse
    \/ ClickTestConnection
    \/ ClickDetectCapabilities
    \/ ClickDiscover
    \/ ClickIngest
    \/ ClickCancel
    \/ WorkerReports
    \/ WorkerEnds
    \/ Poll

\* one session of the API tab
SpecUi == InitUi /\ [][NextUi]_vars

\* a client with the default rate limit, no fetch operation started
InitFetch == InitRequest /\ rate_limit_rps = 20 /\ IngestIdle /\ FlattenIdle
                 /\ UpsertIdle /\ MessageIdle /\ ProbeIdle /\ CliIdle
                 /\ PersistIdle /\ UiIdle /\ FetchIdle

NextFetch ==
    \/ CallFetch
    \/ FetchPause
    \/ SetCancel
    \/ LoopHead
    \/ SleepCheck
    \/ SleepWake
    \/ Send

\* one client and its fetch operations
SpecFetch == InitFetch /\ [][NextFetch]_vars

(***************************************************************************)
(* Properties of _request.                                                 *)
(***************************************************************************)
Failed == rpc = "done" /\ outcome \notin {"returned", "cancelled"}

\* C2: when the upstream answers 503 to the first N attempts and 200 to
\* attempt N+1, a call that is not cancelled returns the 200 body after
\* exactly N+1 sends if max_retries >= N, and fails after exactly
\* max_retries+1 sends if max_retries < N, in both backends.
C2_RetryBound ==
    /\ (rpc = "done" /\ pattern = "503s_then_200") =>
           (outcome = "returned" /\ sends - 1 <= max_retries)
    /\ (rpc = "done" /\ pattern = "only_503" /\ outcome # "cancelled") =>
           (Failed /\ sends = max_retries + 1)
    /\ (InFlight /\ pattern = "only_503") => sends <= max_retries + 1

C2_Witness ==
    /\ rpc = "done"
    /\ outcome = "returned"
    /\ pattern = "503s_then_200"
    /\ max_retries >= 2
    /\ sends = max_retries + 1

\* C3 (as claimed): once the cancel event is set during an attempt's pacing
\* sleep, the call ends with the cancellation error within one sleep
\* increment and sends no HTTP request.
C3_CancelDuringPacing ==
    cancel_during = "pacing" =>
        /\ sends = sends_at_cancel
        /\ InFlight => since_cancel <= SleepIncrement
        /\ rpc = "done" => outcome = "cancelled"

\* C4 (as claimed): an attempt that ends with a non-retryable status or a
\* non-transport exception ends the call at once, in both backends.
C4_NoRetryOfNonRetryable ==
    last_response \in {"401", "bad_json"} => (rpc = "done" /\ Failed)

\* C5 (as claimed): a transport error propagates only once max_retries+1
\* attempts have been made, in both backends.
C5_TransportRetried ==
    (rpc = "done" /\ outcome = "transport_error") => sends = max_retries + 1

\* C6 (as claimed): two consecutive HTTP sends of one client are at least
\* min_request_interval apart.
C6_SendsPaced ==
    send_gap = -1 \/ send_gap >= min_request_interval

\* C29: once the cancel event is set during a backoff sleep, its last
\* increment included, the call sends no further HTTP request and ends with
\* the cancellation error, in both backends.
C29_CancelDuringBackoff ==
    cancel_during = "backoff" =>
        /\ sends = sends_at_cancel
        /\ rpc # "send"
        /\ rpc = "done" => outcome = "cancelled"

\* the event was set during the last increment of a backoff sleep of the
\* urllib backend: the sleep ran to its end and the loop head raised
C29_Witness ==
    /\ cancel_during = "backoff"
    /\ backend = "urllib"
    /\ rpc = "done"
    /\ outcome = "cancelled"
    /\ sleep_elapsed >= sleep_seconds
    /\ sends = 1

(***************************************************************************)
(* Properties of ingest_api_day.                                           *)
(***************************************************************************)
StructuredTables == {"api_meetings", "api_races", "api_runners", "api_results"}

Keys(tables, t) == {PrimaryKey(t, r) : r \in tables[t]}

EntityTypeOf(table) ==
    CASE table = "api_meetings" -> "meeting"
      [] table = "api_races" -> "race"
      [] table = "api_runners" -> "runner"
      [] table = "api_results" -> "result"

PrimaryKeysUnique(tables) ==
    \A t \in TableNames : \A r1, r2 \in tables[t] :
        PrimaryKey(t, r1) = PrimaryKey(t, r2) => r1 = r2

SameInputsAsPrev ==
    /\ prev.clean
    /\ prev.date = date
    /\ prev.regions = regions
    /\ prev.racecards = racecards
    /\ prev.results = results

\* C1: a second run of ingest_api_day with the same date, regions and
\* payloads, neither run cancelled nor failing, leaves the six tables with
\* exactly the rows they had after the first run, and no primary key twice.
C1_Idempotent ==
    (Clean /\ SameInputsAsPrev) => (db = prev.db /\ PrimaryKeysUnique(db))

C1_Witness ==
    /\ Clean
    /\ SameInputsAsPrev
    /\ Len(meetings) = 2
    /\ db["api_runners"] # {}
    /\ db["api_results"] # {}
    /\ db["api_kv"] # {}

\* C7 (as claimed): when the results fetch raises the plan restriction, the
\* call still returns a report with counts.results = 0, one message in its
\* error list, and every meeting of the racecard payload persisted and
\* committed.
C7_SoftFailCompletes ==
    (ipc = "done" /\ soft_failed) =>
        /\ ended = "returned"
        /\ report.counts.results = 0
        /\ Len(report.errors) = 1
        /\ report.counts.meetings = Len(meetings)
        /\ db = conn

\* C8: whenever ingest_api_day ends by raising, the six tables hold what
\* they held before the call and no report artifact has been written.
C8_RaiseLeavesStore ==
    (ipc = "done" /\ ended = "raised") =>
        (db = db_before /\ artifacts = artifacts_before)

C8_Witness ==
    /\ ipc = "done"
    /\ ended = "raised"
    /\ error = "persist_error"
    /\ report.counts.runners > 0
    /\ db_before # EmptyDb
    /\ artifacts # {}

\* C9 (as claimed): whenever the call has observed the cancel event set, it
\* ends with the cancellation error and never returns a report.
C9_CancelEndsWithError ==
    (ipc = "done" /\ saw_cancel) => (ended = "raised" /\ error = "cancelled")

\* C10: at the end of any call, every row of a structured table has its
\* api_entities row with the matching (entity_type, entity_id), and every
\* api_entities row has an api_kv row for each key of its flattened payload.
C10_EntityWithRow ==
    ipc = "done" =>
        LET entity_keys == Keys(db, "api_entities")
            fact_keys == Keys(db, "api_kv")
        IN /\ \A t \in StructuredTables : \A r \in db[t] :
                  << EntityTypeOf(t) >> \o PrimaryKey(t, r) \in entity_keys
           /\ \A e \in db["api_entities"] :
                  LET flat == FlattenJson(e.raw, "")
                  IN \A i \in 1..Len(flat) :
                         << e.entity_type, e.entity_id, flat[i][1] >> \in fact_keys

C10_Witness ==
    /\ ipc = "done"
    /\ ended = "returned"
    /\ saw_cancel
    /\ mi = 2
    /\ Len(meetings) = 2
    /\ db["api_runners"] # db_before["api_runners"]

\* C11: after any sequence of calls, every api_races row names the key of an
\* existing api_meetings row and every api_runners row names the key of an
\* existing api_races row.
C11_ParentsExist ==
    ipc = "done" =>
        /\ \A r \in db["api_races"] :
               \E m \in db["api_meetings"] : m.meeting_id = r.meeting_id
        /\ \A u \in db["api_runners"] :
               \E r \in db["api_races"] : r.race_id = u.race_id

C11_Witness ==
    /\ ipc = "done"
    /\ runs = 2
    /\ saw_cancel
    /\ \E r \in db["api_races"] : r.race_id = "r1" /\ r.meeting_id = "m2"
    /\ \E u \in db["api_runners"] : u.race_id = "r1"
    /\ \E m \in db["api_meetings"] : m.meeting_id = "m1"

ValueColumns == {"v_text", "v_num", "v_json"}

\* C12: after any sequence of calls, every api_kv row has exactly one of
\* v_text, v_num, v_json non-null, also when a later write changes the type
\* of the leaf under a key.
C12_OneTypedValue ==
    ipc = "done" =>
        \A f \in db["api_kv"] : Cardinality({c \in ValueColumns : f[c] # Null}) = 1

C12_Witness ==
    /\ ipc = "done"
    /\ \E f \in db["api_kv"], g \in db_before["api_kv"] :
           /\ PrimaryKey("api_kv", f) = PrimaryKey("api_kv", g)
           /\ g.v_num # Null
           /\ f.v_text # Null

\* the api_kv row of entity e for leaf x under key k, with the given columns
Fact(e, k, v_text, v_num, v_json) ==
    [entity_type |-> e.entity_type, entity_id |-> e.entity_id, k |-> k,
     v_text |-> v_text, v_num |-> v_num, v_json |-> v_json]

\* C13: a non-boolean number is stored in v_num only, a string in v_text
\* only, and a boolean, a null or an empty-list marker in v_json only (as
\* its JSON text); a boolean is never stored in v_num.
C13_LeafColumn ==
    ipc = "done" =>
        LET fact_keys == Keys(db, "api_kv")
        IN \A e \in db["api_entities"] :
               LET flat == FlattenJson(e.raw, "")
               IN \A i \in 1..Len(flat) :
                      LET k == flat[i][1]
                          x == flat[i][2]
                      IN << e.entity_type, e.entity_id, k >> \in fact_keys =>
                             /\ x.t = "num" => Fact(e, k, Null, x, Null) \in db["api_kv"]
                             /\ x.t = "str" => Fact(e, k, x, Null, Null) \in db["api_kv"]
                             /\ x.t \in {"bool", "null", "list"} =>
                                    Fact(e, k, Null, Null, Str(CompactJson(x)))
                                        \in db["api_kv"]

C13_Witness ==
    /\ ipc = "done"
    /\ \E f \in db["api_kv"] : f.k = "scratched" /\ f.v_json = Str("false")
    /\ \E f \in db["api_kv"] : f.k = "draw" /\ f.v_json = Str("null")
    /\ \E f \in db["api_kv"] : f.k = "form.last_10" /\ f.v_json = Str("[]")
    /\ \E f \in db["api_kv"] : f.k = "weight" /\ f.v_num = Num(55)
    /\ \E f \in db["api_kv"] : f.k = "runner_name" /\ f.v_text = Str("B")

(***************************************************************************)
(* Properties of flatten_json.                                             *)
(***************************************************************************)
\* the number of scalar leaves of a value
RECURSIVE Leaves(_)
RECURSIVE LeavesFrom(_, _)
LeavesFrom(x, i) ==
    IF i > Len(x.v) THEN 0
    ELSE Leaves(IF IsDict(x) THEN x.v[i][2] ELSE x.v[i]) + LeavesFrom(x, i + 1)

Leaves(x) == IF IsDict(x) \/ IsList(x) THEN LeavesFrom(x, 1) ELSE 1

\* two flat dicts are equal as Python dicts: the same keys with the same leaves
SameMapping(f, g) ==
    {f[i] : i \in 1..Len(f)} = {g[i] : i \in 1..Len(g)}

\* C14 (as claimed): flatten_json is injective on objects and arrays of
\* scalars: two different inputs never flatten to the same mapping, and
\* every scalar leaf of an input has a path key of its own.
C14_FlattenInjective ==
    fpc = "done" =>
        /\ obj_a # obj_b => ~SameMapping(out_a, out_b)
        /\ Len(out_a) >= Leaves(obj_a)

(***************************************************************************)
(* Properties of the rows and counts of a completed call.                  *)
(***************************************************************************)
RECURSIVE Concat(_)
Concat(seqs) == IF seqs = << >> THEN << >> ELSE Head(seqs) \o Concat(Tail(seqs))

ListOf(d, k) == IF IsList(Get(d, k)) THEN Get(d, k).v ELSE << >>

PayloadRaces == Concat([i \in 1..Len(meetings) |-> ListOf(meetings[i], "races")])
PayloadRunners == Concat([i \in 1..Len(PayloadRaces) |->
                             IF IsDict(PayloadRaces[i])
                             THEN ListOf(PayloadRaces[i], "runners") ELSE << >>])

\* every item is an object whose field k is present, and no two share it
DistinctIds(items, k) ==
    /\ \A i \in 1..Len(items) : IsDict(items[i]) /\ Get(items[i], k) # Null
    /\ \A i, j \in 1..Len(items) :
           Get(items[i], k) = Get(items[j], k) => i = j

DistinctUpstreamIds ==
    /\ DistinctIds(meetings, "meeting_id")
    /\ DistinctIds(PayloadRaces, "race_id")
    /\ DistinctIds(PayloadRunners, "runner_id")
    /\ DistinctIds(results_rows, "race_id")

\* C15 (as claimed): on an empty store, a completed call on a payload whose
\* meetings, races, runners and results rows carry pairwise distinct ids
\* reports counts equal to the numbers of these objects, and the four
\* structured tables hold exactly that many rows.
C15_CountsAndRows ==
    (ipc = "done" /\ ended = "returned" /\ ~saw_cancel /\ db_before = EmptyDb
        /\ DistinctUpstreamIds) =>
        /\ report.counts.meetings = Len(meetings)
        /\ report.counts.races = Len(PayloadRaces)
        /\ report.counts.runners = Len(PayloadRunners)
        /\ report.counts.results = Len(results_rows)
        /\ Cardinality(db["api_meetings"]) = Len(meetings)
        /\ Cardinality(db["api_races"]) = Len(PayloadRaces)
        /\ Cardinality(db["api_runners"]) = Len(PayloadRunners)
        /\ Cardinality(db["api_results"]) = Len(results_rows)

(***************************************************************************)
(* Properties of the upsert statements.                                    *)
(***************************************************************************)
\* C16: after any sequence of upserts, the row stored under a key is
\* exactly the row of the most recent upsert of that key: no column keeps an
\* earlier value and nothing is merged.
C16_LastWriteWins ==
    \A t \in TableNames : store[t] = {g.row : g \in {h \in last_row : h.table = t}}

C16_Witness ==
    /\ \E g \in last_row, h \in prev_row :
           /\ g.table = "api_entities"
           /\ SameKey(h, g.table, g.row)
           /\ h.row.parent_id # Null /\ g.row.parent_id = Null
           /\ h.row.country = Null /\ g.row.country # Null
           /\ g.row \in store["api_entities"]
    /\ \E g \in last_row, h \in prev_row :
           /\ g.table = "api_races"
           /\ SameKey(h, g.table, g.row)
           /\ h.row.race_no # Null /\ g.row.race_no = Null
           /\ h.row.meeting_id # g.row.meeting_id
           /\ g.row \in store["api_races"]

(***************************************************************************)
(* Properties of the store across calls.                                   *)
(***************************************************************************)
RECURSIVE PersistMeetings(_, _, _)
PersistMeetings(st, i, n) ==
    IF st.raised \/ i > n THEN st
    ELSE PersistMeetings(PersistMeeting(st, meetings[i], date, regions), i + 1, n)

\* what the statements of a returned call write, seen on empty tables: the
\* meetings before index mi, then the results rows (no statement reads the
\* store, so the rows written do not depend on what it held)
WrittenByCall ==
    IF ended = "returned" /\ mi >= 1
    THEN PersistResults(
             PersistMeetings([db |-> EmptyDb, counts |-> ZeroCounts, raised |-> FALSE],
                             1, mi - 1),
             results_rows, date, 1).db
    ELSE EmptyDb

\* C17: across calls the primary keys of each table only grow, and a fact
\* whose key no statement of the call writes keeps its row.
C17_NothingDeleted ==
    ipc = "done" =>
        /\ \A t \in TableNames : Keys(db_before, t) \subseteq Keys(db, t)
        /\ \/ db_before["api_kv"] \subseteq db["api_kv"]
           \/ LET written == Keys(WrittenByCall, "api_kv")
              IN {f \in db_before["api_kv"] : PrimaryKey("api_kv", f) \notin written}
                     \subseteq db["api_kv"]

C17_Witness ==
    /\ ipc = "done"
    /\ ended = "returned"
    /\ \E f \in db_before["api_kv"] :
           /\ f.entity_type = "race" /\ f.entity_id = "r1" /\ f.k = "distance"
           /\ << "race", "r1" >> \in Keys(WrittenByCall, "api_entities")
           /\ PrimaryKey("api_kv", f) \notin Keys(WrittenByCall, "api_kv")
           /\ f \in db["api_kv"]

(***************************************************************************)
(* Properties of _capability_message.                                      *)
(***************************************************************************)
\* letters a and b are the same up to case
SameLetter(a, b) ==
    \/ a = b
    \/ \E n \in 1..Len(UpperCase) :
          {a, b} = {UpperCase[n], LowerCase[n]}

\* text mentions word, in any mix of cases
Mentions(text, word) ==
    \E i \in 0..(Len(text) - Len(word)) :
        \A j \in 1..Len(word) : SameLetter(text[i + j], word[j])

BasicPlanRule(text) ==
    /\ Mentions(text, << "b", "a", "s", "i", "c" >>)
    /\ Mentions(text, << "p", "l", "a", "n" >>)

AuthRule(text) ==
    \/ Mentions(text, << "f", "o", "r", "b", "i", "d", "d", "e", "n" >>)
    \/ Mentions(text, << "4", "0", "1" >>)
    \/ Mentions(text, << "4", "0", "3" >>)

RateRule(text) ==
    /\ Mentions(text, << "r", "a", "t", "e" >>)
    /\ Mentions(text, << "l", "i", "m", "i", "t" >>)

\* C19: the message is the one of the first rule that matches the error
\* text, in the order basic plan, authentication, rate limit, matching in
\* any case; with no rule matching it is the text cut to its first 200
\* characters.
C19_FirstRuleDecides ==
    mpc = "done" =>
        LET text == ErrorText(raised)
        IN /\ BasicPlanRule(text) => msg = BasicPlanMessage
           /\ ~BasicPlanRule(text) /\ AuthRule(text) => msg = AuthFailedMessage
           /\ ~BasicPlanRule(text) /\ ~AuthRule(text) /\ RateRule(text) =>
                  msg = RateLimitedMessage
           /\ ~BasicPlanRule(text) /\ ~AuthRule(text) /\ ~RateRule(text) =>
                  /\ Len(msg) <= TruncateAt
                  /\ Len(msg) = Min(Len(text), TruncateAt)
                  /\ \A i \in 1..Len(msg) : msg[i] = text[i]

\* a text in mixed case matching the plan rule and the authentication rule
C19_Witness ==
    /\ mpc = "done"
    /\ raised.response = NoResponse
    /\ Mentions(raised.message, << "F", "O", "R", "B", "I", "D", "D", "E", "N" >>)
    /\ BasicPlanRule(raised.message)
    /\ raised.message # LowerText(raised.message)
    /\ msg = BasicPlanMessage

(***************************************************************************)
(* Properties of probe_capabilities.                                       *)
(***************************************************************************)
Returned(f) == f.returned

RegionsOf(fs) == [i \in 1..Len(fs) |-> fs[i].region]

\* the report of a call that probed the regions asked: one fetch per region,
\* in order, the available ones being those whose fetch returned
ReportFor(asked) ==
    /\ result.auth_ok =>
          /\ RegionsOf(fetches) = asked
          /\ result.available_regions = RegionsOf(SelectSeq(fetches, Returned))
    /\ result.can_racecards <=> result.available_regions # << >>
    /\ ~result.auth_ok =>
          /\ ~result.can_racecards
          /\ result.available_regions = << >>
          /\ result.plan_message # << >>
          /\ fetches = << >>

\* C18 as stated: the report's available_regions is the in-order subsequence
\* of the requested regions whose fetch returned, each requested region
\* probed exactly once; can_racecards iff it is not empty; a failed auth
\* check gives auth_ok false, can_racecards false, no available region, a
\* message, and no region probed.
C18_ReportOfRequested == ppc = "done" => ReportFor(requested)

\* C18, amended: the same, of the regions probed, which are the requested
\* regions, or "gb" alone when none is requested.
C18_ReportOfProbed ==
    ppc = "done" => ReportFor(IF requested = << >> THEN << GB >> ELSE requested)

\* two regions requested, the first blocked, the second available
C18_Witness ==
    /\ ppc = "done"
    /\ result.auth_ok
    /\ requested = << GB, IRE >>
    /\ result.available_regions = << IRE >>
    /\ result.can_racecards

\* no region requested, and "gb" reported available
C18_DefaultRegion ==
    /\ ppc = "done"
    /\ requested = << >>
    /\ result.available_regions = << GB >>

(***************************************************************************)
(* Properties of the progress callback.                                    *)
(***************************************************************************)
Reported(pct) == \E i \in 1..Len(progress) : progress[i].pct = pct

\* C20: the percentages passed to the progress callback in one call never
\* decrease, and 100 has been passed only when the transaction is committed
\* and the call's report file is in outdir.
C20_ProgressMonotone ==
    /\ \A i \in 1..Len(progress), j \in 1..Len(progress) :
           i <= j => progress[i].pct <= progress[j].pct
    /\ Reported(100) =>
           /\ Reported(90)
           /\ db = conn
           /\ [name |-> ReportName(date), report |-> report] \in artifacts

\* a call that wrote rows and ran to its end
C20_Witness ==
    /\ ipc = "done"
    /\ ended = "returned"
    /\ db # db_before
    /\ [i \in 1..Len(progress) |-> progress[i].pct] = << 10, 20, 45, 65, 90, 100 >>

(***************************************************************************)
(* Properties of the report artifact and of the Persist step.              *)
(***************************************************************************)
\* C21 (as claimed): a call that returns a report has written that report,
\* with its counts and its error list, as ingest_report_<date>.json.
C21_ReportPersisted ==
    (ipc = "done" /\ ended = "returned") =>
        [name |-> ReportName(date), report |-> report] \in artifacts

\* C22 (as claimed): the Persist step does not raise because of the shape
\* of a payload; the one value it may raise for is a number beyond the float
\* range, which is no matter of shape.
C22_ShapeTolerated ==
    (ipc = "done" /\ error = "persist_error") =>
        \E i \in 1..Len(meetings) : meetings[i] = Meeting4

(***************************************************************************)
(* Properties of the order of the steps of ingest_api_day.                 *)
(***************************************************************************)
\* C27 (as claimed): once the meetings loop has seen the cancel event, the
\* call writes no results row, commits nothing, writes no report file and
\* reports no further progress.
C27_CancelAbsorbing ==
    [][(saw_cancel /\ ipc \in {"results_rows", "commit", "write_report",
                               "report_written"})
           => UNCHANGED << conn, db, artifacts, progress >>]_vars

\* C28: the store is written only between the end of the two fetches and the
\* commit; the commit comes after the last write and before the report file;
\* the report file comes before the return.
C28_StepOrder ==
    /\ ipc \in {"fetch_racecards", "after_racecards", "fetch_results"} =>
           conn = db /\ db = db_before /\ artifacts = artifacts_before
    /\ ipc \in {"persist", "results_rows", "commit"} =>
           db = db_before /\ artifacts = artifacts_before
    /\ ipc = "write_report" => conn = db /\ artifacts = artifacts_before
    /\ ipc = "report_written" =>
           /\ conn = db
           /\ [name |-> ReportName(date), report |-> report] \in artifacts
           /\ ended = "none"
    /\ (ipc = "done" /\ Reported(100)) =>
           /\ conn = db
           /\ [name |-> ReportName(date), report |-> report] \in artifacts
           /\ ended = "returned"
           /\ [i \in 1..Len(progress) |-> progress[i].stage] =
                  << "Auth check", "Discover", "Fetch summaries", "Fetch details",
                     "Write DB", "Report" >>

\* a call that wrote rows of both payloads over an earlier store, and is Done
C28_Witness ==
    /\ ipc = "done"
    /\ Reported(100)
    /\ db_before # EmptyDb
    /\ db # db_before
    /\ report.counts.results > 0
    /\ report.counts.runners > 0

\* C30 (as claimed): once the cancel event is set while the probe runs, the
\* probe ends with the cancellation error: it returns no report, neither
\* with the cancellation as an authentication failure nor as a blocked
\* region.
C30_ProbeCancelRaises == probe_cancel => ppc # "done"

(***************************************************************************)
(* Properties of the requests the fetch methods make.                      *)
(***************************************************************************)
\* C23 (as claimed): the request of fetch_daily_racecards is a GET of
\* "racecards/summaries" whose parameters are the date and "region_codes[]",
\* the list of the given regions, each in lower case, in the given order.
C23_RacecardsRequest ==
    \A i \in 1..Len(sent) :
        sent[i].by = "fetch_daily_racecards" =>
            /\ sent[i].method = "GET"
            /\ sent[i].path = "racecards/summaries"
            /\ Len(sent[i].params) = 2
            /\ sent[i].params[1] = << "date", ProbeDate >>
            /\ sent[i].params[2][1] = "region_codes[]"
            /\ sent[i].params[2][2] =
                   [k \in 1..Len(sent[i].given) |-> LowerText(sent[i].given[k])]

\* C24 (as claimed): the first request of probe_capabilities goes to
\* "courses/regions"; when it succeeds auth_ok is true and every region is
\* then probed by a racecard-summary fetch with its code in lower case.
C24_AuthByRegionsEndpoint ==
    sent # << >> =>
        /\ sent[1].path = "courses/regions"
        /\ Len(sent) >= 2 => result.auth_ok
        /\ \A i \in 1..Len(fetches) : fetches[i].region = LowerText(fetches[i].region)

\* C26 (as claimed): a fetch_daily_racecard_summaries call that the
\* upstream answers with 401 and "Basic Plan required" raises an error whose
\* message contains "Basic plan needed".
C26_FriendlyPlanError ==
    \A i \in 1..Len(fetches) :
        (~fetches[i].returned /\ fetches[i].exc.response = BasicPlanRequired.response) =>
            Contains(fetches[i].exc.message,
                     << "B", "a", "s", "i", "c", " ", "p", "l", "a", "n",
                        " ", "n", "e", "e", "d", "e", "d" >>)

(***************************************************************************)
(* Properties of the command `api ingest`.                                 *)
(***************************************************************************)
\* the regions the command is to pass: every flag's value, in command-line
\* order, normalised
ExpectedRegions == [i \in 1..Len(argv) |-> NormalizeRegionCode(argv[i].value)]

C25_RaisedWitness ==
    /\ cpc = "done"
    /\ propagated
    /\ argv = << Flag("--country", GB), Flag("--region", << "I", "R", "E" >>) >>
    /\ ingest_calls = << IngestCall(<< GB, IRE >>) >>

(***************************************************************************)
(* Properties of the Persist step: results rows.                           *)
(***************************************************************************)
\* the finish-order/placing list of a results row: the first of
\* finish_order, placing, positions that is a non-empty value
FinishList(row) ==
    IF Truthy(Get(row, "finish_order")) THEN Get(row, "finish_order")
    ELSE IF Truthy(Get(row, "placing")) THEN Get(row, "placing")
    ELSE Get(row, "positions")

\* an identifier as the store holds it: its text, NULL for None
Stringified(x) == IF x = Null THEN Null ELSE Str(PyStr(x))

\* the winner a results row names: its winner_runner_id when it has one, else
\* the head of its finish list (the runner_id of an object), else none
NamedWinner(row) ==
    IF Get(row, "winner_runner_id") # Null
    THEN Stringified(Get(row, "winner_runner_id"))
    ELSE IF IsList(FinishList(row)) /\ Len(FinishList(row).v) > 0
    THEN (IF IsDict(FinishList(row).v[1])
          THEN Stringified(Get(FinishList(row).v[1], "runner_id"))
          ELSE Stringified(FinishList(row).v[1]))
    ELSE Null

\* the results rows given whose text a stored row holds
WrittenFrom(stored) ==
    {i \in 1..Len(given_rows) : CompactJson(given_rows[i]) = stored.raw_json}

\* C31: every stored results row was written from a given row, and its
\* winner_runner_id is that row's explicit winner when it has one, else the
\* head of its finish-order/placing list (the runner_id of an object), else
\* NULL.
C31_WinnerRule ==
    \A stored \in pst.db["api_results"] :
        /\ WrittenFrom(stored) # {}
        /\ \A i \in WrittenFrom(stored) :
               stored.winner_runner_id = NamedWinner(given_rows[i])

\* an explicit winner kept although the finish order starts with another runner
C31_Witness ==
    /\ spc = "done"
    /\ \E stored \in pst.db["api_results"] :
           /\ stored.winner_runner_id = Str("ru2")
           /\ \E i \in WrittenFrom(stored) :
                  /\ Get(given_rows[i], "winner_runner_id") = Str("ru2")
                  /\ Get(given_rows[i], "finish_order") = List(<< Str("ru1"), Str("ru2") >>)

\* a winner taken from the runner_id of the first object of the finish order
C31_FromObject ==
    /\ spc = "done"
    /\ \E stored \in pst.db["api_results"] :
           /\ stored.race_id = "r1"
           /\ stored.winner_runner_id = Str("ru1")
           /\ \E i \in WrittenFrom(stored) :
                  ~Has(given_rows[i], "winner_runner_id")

\* the race_id field of a results row as text, "" when it has none
OwnRaceId(row) ==
    IF Get(row, "race_id") # Null /\ ~IsBlank(PyStr(Get(row, "race_id")))
    THEN PyStr(Get(row, "race_id")) ELSE ""

\* C32 (as claimed): after the Persist step, every given results row with a
\* non-empty race_id has a Results row and a "result" Entity under exactly
\* that race_id, and that Results row holds the last given row with that
\* race_id: rows with different race_id values do not overwrite each other.
C32_KeyedByRaceId ==
    spc = "done" =>
        \A i \in 1..Len(given_rows) :
            OwnRaceId(given_rows[i]) # "" =>
                /\ \E e \in pst.db["api_entities"] :
                       e.entity_type = "result" /\ e.entity_id = OwnRaceId(given_rows[i])
                /\ \E stored \in pst.db["api_results"] :
                       /\ stored.race_id = OwnRaceId(given_rows[i])
                       /\ \E j \in i..Len(given_rows) :
                              /\ OwnRaceId(given_rows[j]) = OwnRaceId(given_rows[i])
                              /\ stored.raw_json = CompactJson(given_rows[j])

(***************************************************************************)
(* Properties of the Persist step: identifiers and nested entities.        *)
(***************************************************************************)
\* the items of a JSON list, none for any other value
Items(x) == IF IsList(x) THEN {x.v[i] : i \in 1..Len(x.v)} ELSE {}

\* the race objects and the runner objects of the given meetings
GivenRaces ==
    {race \in UNION {Items(Get(given_meetings[i], "races")) :
                        i \in 1..Len(given_meetings)} : IsDict(race)}

GivenRunners ==
    {runner \in UNION {Items(Get(race, "runners")) : race \in GivenRaces} :
        IsDict(runner)}

\* the type the extraction rules give a nested object found under key: its
\* type or entity_type field when it has one, else horse, trainer or jockey by
\* the names of its keys, else the key of the field
RuledType(key, value) ==
    LET named(k) == \/ Has(value, k)
                    \/ \E j \in 1..Len(value.v) : StartsWithPrefix(value.v[j][1], k)
    IN IF Get(value, "type") # Null THEN Lower(PyStr(Get(value, "type")))
       ELSE IF Get(value, "entity_type") # Null THEN Lower(PyStr(Get(value, "entity_type")))
       ELSE IF named("horse") THEN "horse"
       ELSE IF named("trainer") THEN "trainer"
       ELSE IF named("jockey") THEN "jockey"
       ELSE Lower(key)

\* C33 (as claimed): every object-valued field of a given runner with a
\* runner_id is recorded as an entity whose parent is the runner, whose type
\* is its explicit type/entity_type when it has one, else horse, trainer or
\* jockey by its key names, else the field's key, and whose identifier is
\* <runner_id>_<key> when the object carries no id field.
C33_NestedTypeRule ==
    spc = "done" =>
        \A runner \in GivenRunners :
            Get(runner, "runner_id") # Null =>
                \A j \in 1..Len(runner.v) :
                    LET key == runner.v[j][1]
                        value == runner.v[j][2]
                        runner_id == PyStr(Get(runner, "runner_id"))
                    IN IsDict(value) =>
                           \E e \in pst.db["api_entities"] :
                               /\ e.raw_json = CompactJson(value)
                               /\ e.parent_id = Str(runner_id)
                               /\ e.entity_type = RuledType(key, value)
                               /\ GetId(value, << RuledType(key, value) \o "_id" >>) = ""
                                      => e.entity_id = runner_id \o "_" \o key

\* the identifier the Persist step gave a race or runner object: the key of
\* the structured row that holds its text
RaceIdsOf(race) ==
    {r.race_id : r \in {x \in pst.db["api_races"] : x.raw_json = CompactJson(race)}}

RunnerIdsOf(runner) ==
    {r.runner_id : r \in {x \in pst.db["api_runners"] : x.raw_json = CompactJson(runner)}}

\* the upstream id an object carries of its own, "" when it has none: race_id
\* on a runner and meeting_id on a race name the parent
OwnId(x, own_keys) ==
    LET ok(i) == Get(x, own_keys[i]) # Null /\ ~IsBlank(PyStr(Get(x, own_keys[i])))
    IN IF \E i \in 1..Len(own_keys) : ok(i)
       THEN PyStr(Get(x, own_keys[CHOOSE i \in 1..Len(own_keys) :
                                    ok(i) /\ \A j \in 1..(i - 1) : ~ok(j)]))
       ELSE ""

RunnerOwnKeys == << "id", "uuid", "runner_id", "horse_id" >>
RaceOwnKeys == << "id", "uuid", "race_id" >>

C39_EntityAgreesWithRow ==
    spc = "done" =>
        /\ \A m \in pst.db["api_meetings"] :
               \E e \in pst.db["api_entities"] :
                   /\ e.entity_type = "meeting" /\ e.entity_id = m.meeting_id
                   /\ e.raw_json = m.raw_json
        /\ \A r \in pst.db["api_races"] :
               \E e \in pst.db["api_entities"] :
                   /\ e.entity_type = "race" /\ e.entity_id = r.race_id
                   /\ e.parent_id = Str(r.meeting_id)
                   /\ e.raw_json = r.raw_json
        /\ \A u \in pst.db["api_runners"] :
               \E e \in pst.db["api_entities"] :
                   /\ e.entity_type = "runner" /\ e.entity_id = u.runner_id
                   /\ e.parent_id = Str(u.race_id)
                   /\ e.raw_json = u.raw_json

(***************************************************************************)
(* Properties of the Persist step: the report's counts.                    *)
(***************************************************************************)
\* the objects in a list-valued field, in order
ObjectsIn(x) == IF IsList(x) THEN OnlyDicts(x.v) ELSE << >>

\* the objects among the values of the fields of an object, in order
ObjectFields(x) == OnlyDicts([j \in 1..Len(x.v) |-> x.v[j][2]])

\* the objects of the payload, per category, with repetitions
GivenRaceObjects ==
    Concat([i \in 1..Len(given_meetings) |-> ObjectsIn(Get(given_meetings[i], "races"))])
GivenRunnerObjects ==
    Concat([i \in 1..Len(GivenRaceObjects) |-> ObjectsIn(Get(GivenRaceObjects[i], "runners"))])
GivenNestedObjects ==
    Concat([i \in 1..Len(GivenRunnerObjects) |-> ObjectFields(GivenRunnerObjects[i])])
GivenKeyedRows ==
    SelectSeq(given_rows, LAMBDA row : \E i \in 1..Len(IdKeys(<< >>)) :
                                           /\ Get(row, IdKeys(<< >>)[i]) # Null
                                           /\ ~IsBlank(PyStr(Get(row, IdKeys(<< >>)[i]))))

GivenEntities ==
    given_meetings \o GivenRaceObjects \o GivenRunnerObjects \o GivenNestedObjects \o GivenKeyedRows

RECURSIVE LeafTotal(_)
LeafTotal(objects) ==
    IF objects = << >> THEN 0
    ELSE Len(FlattenJson(Head(objects), "")) + LeafTotal(Tail(objects))

\* C40 (as claimed): after the Persist step on an empty store, each count of
\* the report equals the number of rows of the corresponding table.
C40_CountsAreRowCounts ==
    (spc = "done" /\ ~pst.raised) =>
        /\ pst.counts.meetings = Cardinality(pst.db["api_meetings"])
        /\ pst.counts.races = Cardinality(pst.db["api_races"])
        /\ pst.counts.runners = Cardinality(pst.db["api_runners"])
        /\ pst.counts.results = Cardinality(pst.db["api_results"])
        /\ pst.counts.entities = Cardinality(pst.db["api_entities"])
        /\ pst.counts.kv_pairs = Cardinality(pst.db["api_kv"])

\* C40 (amended): after the Persist step on an empty store, each count of the
\* report equals the number of objects of its category in the payload, with
\* repetitions (meeting, race and runner objects, results rows with an
\* identifier, all of these plus the object-valued fields of the runners, and
\* the leaves of all of them), and is at least the number of rows of the
\* corresponding table.
C40_CountsAreObjectCounts ==
    (spc = "done" /\ ~pst.raised) =>
        /\ pst.counts.meetings = Len(given_meetings)
        /\ pst.counts.races = Len(GivenRaceObjects)
        /\ pst.counts.runners = Len(GivenRunnerObjects)
        /\ pst.counts.results = Len(GivenKeyedRows)
        /\ pst.counts.entities = Len(GivenEntities)
        /\ pst.counts.kv_pairs = LeafTotal(GivenEntities)
        /\ pst.counts.meetings >= Cardinality(pst.db["api_meetings"])
        /\ pst.counts.races >= Cardinality(pst.db["api_races"])
        /\ pst.counts.runners >= Cardinality(pst.db["api_runners"])
        /\ pst.counts.results >= Cardinality(pst.db["api_results"])
        /\ pst.counts.entities >= Cardinality(pst.db["api_entities"])
        /\ pst.counts.kv_pairs >= Cardinality(pst.db["api_kv"])

\* the same trainer embedded in two runners: two entities counted, one row
C40_Witness ==
    /\ spc = "done"
    /\ ~pst.raised
    /\ given_meetings = << MeetingSharedTrainer >>
    /\ given_rows # << >>
    /\ pst.counts.entities = 7
    /\ Cardinality(pst.db["api_entities"]) = 6
    /\ Cardinality({e \in pst.db["api_entities"] : e.entity_type = "trainer"}) = 1

(***************************************************************************)
(* Properties of the API tab                                               *)
(***************************************************************************)
\* the jobs that have started and whose "done" message has not been processed
OpenJobs ==
    Cardinality(workers) + Cardinality({i \in DOMAIN msg_queue : msg_queue[i] = Done})

\* C35: from the moment a background job starts until its "done" message has
\* been processed, the Ingest button cannot be pressed and no second
\* background worker runs: at most one job is open, and while one is open the
\* Ingest button is disabled.
C35_OneJobAtATime ==
    OpenJobs >= 1 => (OpenJobs = 1 /\ ingest_btn = "disabled")

\* C36: once the user has clicked Cancel while a worker was running, the
\* cancel event stays set until that worker has ended, and the Cancel button
\* is enabled for as long as a worker is running.
C36_CancelHolds ==
    workers # {} =>
        /\ cancel_btn = "normal"
        /\ \A w \in workers : w.id \in held_for => ui_cancel_event

\* C37: within one _request call every HTTP attempt after the first comes
\* after a completed backoff sleep of at least the backoff value (1 s at the
\* least): two sends of one call are never closer than that, whatever the
\* upstream answered (the clock saturates at min_request_interval).
C37_ResendAfterBackoff ==
    (sends >= 2 /\ send_gap >= 0) => send_gap >= Min(InitialBackoff, min_request_interval)

\* C38 as stated: a fetch operation sends at most max_retries+1 HTTP requests
\* before it returns or raises.
C38_FetchSendsBounded == op_sends + sends <= max_retries + 1

\* C38: fetch_daily_racecards and fetch_daily_results send at most
\* max_retries+1 HTTP requests; fetch_daily_racecard_summaries sends at most
\* max_retries+1 to the summaries endpoint and, when that request raised, at
\* most max_retries+1 more to the racecards endpoint.
C38_FetchSendsBoundedPerRequest ==
    /\ sends <= max_retries + 1
    /\ op_sends <= max_retries + 1
    /\ operation # "fallback" => op_sends = 0

\* a summaries operation that used every attempt of both of its requests
C38_Witness ==
    /\ operation = "fallback"
    /\ rpc = "done"
    /\ max_retries >= 1
    /\ op_sends = max_retries + 1
    /\ sends = max_retries + 1

=============================================================================
